---- MODULE Spec2Model ----
(***************************************************************************)
(* openGrid tools (ogt-web): the grid editor state (useGridState), the     *)
(* summit eligibility engine and the compact codec (encode / decode).      *)
(*                                                                         *)
(* Conventions.  JavaScript arrays are TLA+ sequences; the source's        *)
(* 0-based index k is position k+1.  A string is a sequence of             *)
(* one-character strings.  connector_angle is the empty set for null and   *)
(* the singleton {angle} otherwise.  A millimetre value is an integer      *)
(* number of hundredths of a millimetre (4.2 mm is 420), so that           *)
(* Math.round(value * 10) has something to round.                          *)
(***************************************************************************)
EXTENDS Integers, Sequences, FiniteSets, TLC

VARIABLES tiles, summits, opengridType, screwSize, opts, code, result, phase

\* lib/cad-client.ts and lib/cad-worker.ts: the client's module state, the
\* generateCAD calls and their useCadExport hooks, the messages and events in
\* flight, and the worker
VARIABLES snapshot, listeners, timer, nextId, pending, micro, calls,
          exportStatus, toWorker, toClient, workerError, worker, exporting

gridVars == <<tiles, summits, opengridType, screwSize, opts, code, result, phase>>

cadVars == <<snapshot, listeners, timer, nextId, pending, micro, calls,
             exportStatus, toWorker, toClient, workerError, worker, exporting>>

vars == <<gridVars, cadVars>>

(***************************************************************************)
(* Bounds of the model.                                                    *)
(***************************************************************************)
\* the editor grows a grid up to MaxRows x MaxCols slots
MaxRows == 2
MaxCols == 2
\* layouts handed to the plan builder: at most MaxPlanRows x MaxPlanCols
\* and at most MaxPlanCells slots
MaxPlanRows == 2
MaxPlanCols == 4
MaxPlanCells == 8
\* well-formed codes handed to decode describe grids of at most
\* MaxCodeSummits summits
MaxCodeSummits == 9
\* generateCAD is called at most MaxCalls times
MaxCalls == 2

(***************************************************************************)
(* The CAD client once its module has been evaluated: status loading, the  *)
(* 30 s timer armed, no call made, the worker still initialising.          *)
(***************************************************************************)
CadClientInit ==
  /\ snapshot = [status |-> "loading", error |-> "none"]
  /\ listeners = <<>>
  /\ timer = TRUE
  /\ nextId = 1
  /\ pending = <<>>
  /\ micro = <<>>
  /\ calls = [k \in 1..MaxCalls |-> [state |-> "idle", id |-> 0, via |-> "none"]]
  /\ exportStatus = [k \in 1..MaxCalls |-> "idle"]
  /\ toWorker = <<>>
  /\ toClient = <<>>
  /\ workerError = FALSE
  /\ worker = "init"
  /\ exporting = {}

(***************************************************************************)
(* Small helpers for arrays.                                               *)
(***************************************************************************)
Rows(t) == Len(t)

Cols(t) == IF Len(t) = 0 THEN 0 ELSE Len(t[1])

Pow2(n) == IF n = 0 THEN 1 ELSE IF n = 1 THEN 2 ELSE IF n = 2 THEN 4
           ELSE IF n = 3 THEN 8 ELSE IF n = 4 THEN 16 ELSE IF n = 5 THEN 32
           ELSE IF n = 6 THEN 64 ELSE 128

\* Math.floor where the code has Math.ceil
CeilDiv8_Floor(n) == n \div 8

CeilDiv8(n) == (n + 7) \div 8

(***************************************************************************)
(* lib/defaults.ts                                                         *)
(***************************************************************************)
null == {}

DEFAULT_SCREW_SIZE == [diameter |-> 420, head_diameter |-> 800, head_inset |-> 100]

LITE_DEFAULT_SCREW_SIZE == [diameter |-> 410, head_diameter |-> 720, head_inset |-> 100]

emptySummit == [connector_angle |-> null, tile_chamfer |-> FALSE, screw |-> FALSE]

createEmptyGrid(rows, cols) ==
  [tiles   |-> [r \in 1..rows |-> [c \in 1..cols |-> TRUE]],
   summits |-> [i \in 1..(rows + 1) |-> [j \in 1..(cols + 1) |-> emptySummit]]]

(***************************************************************************)
(* lib/eligibility.ts                                                      *)
(***************************************************************************)
isTile(t, r, c) ==
  IF r >= 0 /\ r < Rows(t) /\ c >= 0 /\ c < Cols(t) THEN t[r + 1][c + 1] ELSE FALSE

\* any two tiles, the diagonal pairs included
connectorAt_AnyTwo(t, i, j) ==
  Cardinality({p \in {<<i - 1, j - 1>>, <<i - 1, j>>, <<i, j - 1>>, <<i, j>>} : isTile(t, p[1], p[2])}) = 2

\* the loop body of computeEligibleConnectorPositions at summit (i,j)
connectorAt(t, i, j) ==
  LET tl == isTile(t, i - 1, j - 1)
      tr == isTile(t, i - 1, j)
      bl == isTile(t, i, j - 1)
      br == isTile(t, i, j)
  IN  (tl = tr /\ bl = br /\ tl # bl) \/ (tl = bl /\ tr = br /\ tl # tr)

computeEligibleConnectorPositions(t) ==
  [i1 \in 1..(Rows(t) + 1) |-> [j1 \in 1..(Cols(t) + 1) |-> connectorAt(t, i1 - 1, j1 - 1)]]

\* the two directions of a horizontal split exchanged
computeConnectorDirection_Flipped(t, i, j) ==
  LET tl == isTile(t, i - 1, j - 1)
      tr == isTile(t, i - 1, j)
      bl == isTile(t, i, j - 1)
      br == isTile(t, i, j)
  IN  IF tl = tr /\ bl = br /\ tl # bl THEN (IF bl THEN 90 ELSE -90)
      ELSE IF tl = bl /\ tr = br /\ tl # tr THEN (IF tr THEN 0 ELSE 180)
      ELSE 0

computeConnectorDirection(t, i, j) ==
  LET tl == isTile(t, i - 1, j - 1)
      tr == isTile(t, i - 1, j)
      bl == isTile(t, i, j - 1)
      br == isTile(t, i, j)
  IN  IF tl = tr /\ bl = br /\ tl # bl THEN (IF bl THEN -90 ELSE 90)
      ELSE IF tl = bl /\ tr = br /\ tl # tr THEN (IF tr THEN 0 ELSE 180)
      ELSE 0

\* count >= 1 where the code has count === 1
chamferAt_AnyTile(t, i, j) ==
  isTile(t, i - 1, j - 1) \/ isTile(t, i - 1, j) \/ isTile(t, i, j - 1) \/ isTile(t, i, j)

\* the loop body of computeEligibleChamferPositions at summit (i,j)
chamferAt(t, i, j) ==
  LET neighbours == <<isTile(t, i - 1, j - 1), isTile(t, i - 1, j),
                      isTile(t, i, j - 1), isTile(t, i, j)>>
      count == Cardinality({k \in 1..4 : neighbours[k]})
  IN  count = 1

computeEligibleChamferPositions(t) ==
  [i1 \in 1..(Rows(t) + 1) |-> [j1 \in 1..(Cols(t) + 1) |-> chamferAt(t, i1 - 1, j1 - 1)]]

\* the loop body of computeEligibleScrewPositions at summit (i,j)
screwAt(t, i, j) ==
  LET tl == isTile(t, i - 1, j - 1)
      tr == isTile(t, i - 1, j)
      bl == isTile(t, i, j - 1)
      br == isTile(t, i, j)
  IN  tl /\ tr /\ bl /\ br

computeEligibleScrewPositions(t) ==
  [i1 \in 1..(Rows(t) + 1) |-> [j1 \in 1..(Cols(t) + 1) |-> screwAt(t, i1 - 1, j1 - 1)]]

\* a neighbour outside the grid counts as eligible
isEligible_OutsideEligible(eligible, r, c) ==
  IF r >= 0 /\ r < Rows(eligible) /\ c >= 0 /\ c < Cols(eligible)
  THEN eligible[r + 1][c + 1] ELSE TRUE

\* eligible[r][c] with the bounds check of the inner isEligible
isEligible(eligible, r, c) ==
  IF r >= 0 /\ r < Rows(eligible) /\ c >= 0 /\ c < Cols(eligible)
  THEN eligible[r + 1][c + 1] ELSE FALSE

\* a corner unless it is passed through on both axes
computeCornerScrewPositions_BothAxes(eligible) ==
  [i1 \in 1..Rows(eligible) |-> [j1 \in 1..Cols(eligible) |->
     LET i == i1 - 1
         j == j1 - 1
         hThrough == isEligible(eligible, i, j - 1) /\ isEligible(eligible, i, j + 1)
         vThrough == isEligible(eligible, i - 1, j) /\ isEligible(eligible, i + 1, j)
     IN  IF ~eligible[i1][j1] THEN FALSE ELSE ~(hThrough /\ vThrough)]]

computeCornerScrewPositions(eligible) ==
  [i1 \in 1..Rows(eligible) |-> [j1 \in 1..Cols(eligible) |->
     LET i == i1 - 1
         j == j1 - 1
         hThrough == isEligible(eligible, i, j - 1) /\ isEligible(eligible, i, j + 1)
         vThrough == isEligible(eligible, i - 1, j) /\ isEligible(eligible, i + 1, j)
     IN  IF ~eligible[i1][j1] THEN FALSE ELSE ~hThrough /\ ~vThrough]]

computeAllEligibility(t) ==
  [connectors |-> computeEligibleConnectorPositions(t),
   chamfers   |-> computeEligibleChamferPositions(t),
   screws     |-> computeEligibleScrewPositions(t)]

\* grid[i]?.[j] : undefined (falsy) outside the grid
At(grid, i, j) ==
  IF i >= 0 /\ i < Len(grid) THEN (IF j >= 0 /\ j < Len(grid[i + 1]) THEN grid[i + 1][j + 1] ELSE FALSE)
  ELSE FALSE

(***************************************************************************)
(* lib/compact.ts : strings, base64url and bit packing                     *)
(***************************************************************************)
B64 == <<"A","B","C","D","E","F","G","H","I","J","K","L","M","N","O","P",
         "Q","R","S","T","U","V","W","X","Y","Z","a","b","c","d","e","f",
         "g","h","i","j","k","l","m","n","o","p","q","r","s","t","u","v",
         "w","x","y","z","0","1","2","3","4","5","6","7","8","9","-","_">>

\* the table of the standard alphabet: "+" and "/" where B64 has "-" and "_"
lookup_Standard(ch) ==
  IF ch = "+" THEN 62
  ELSE IF ch = "/" THEN 63
  ELSE IF \E k \in 1..62 : B64[k] = ch
  THEN (CHOOSE k \in 1..62 : B64[k] = ch) - 1
  ELSE 0

\* lookup[s.charCodeAt(i)] : the index in B64, 0 for every other character
lookup(ch) ==
  IF \E k \in 1..Len(B64) : B64[k] = ch
  THEN (CHOOSE k \in 1..Len(B64) : B64[k] = ch) - 1
  ELSE 0

RECURSIVE b64urlEncode(_)
b64urlEncode(data) ==
  IF Len(data) = 0 THEN <<>>
  ELSE LET b0 == data[1]
           b1 == IF Len(data) >= 2 THEN data[2] ELSE 0
           b2 == IF Len(data) >= 3 THEN data[3] ELSE 0
           \* (b0 >> 2) & 0x3f ; ((b0 << 4) | (b1 >> 4)) & 0x3f
           q0 == <<B64[((b0 \div 4) % 64) + 1], B64[((b0 * 16 + b1 \div 16) % 64) + 1]>>
           \* ((b1 << 2) | (b2 >> 6)) & 0x3f
           q2 == IF Len(data) >= 2 THEN <<B64[((b1 * 4 + b2 \div 64) % 64) + 1]>> ELSE <<>>
           \* b2 & 0x3f
           q3 == IF Len(data) >= 3 THEN <<B64[(b2 % 64) + 1]>> ELSE <<>>
       IN  q0 \o q2 \o q3 \o b64urlEncode(SubSeq(data, 4, Len(data)))

RECURSIVE padTo4(_)
padTo4(s) == IF Len(s) % 4 # 0 THEN padTo4(Append(s, "=")) ELSE s

RECURSIVE b64Groups(_)
b64Groups(s) ==
  IF Len(s) = 0 THEN <<>>
  ELSE LET c0 == IF s[1] = "=" THEN 0 ELSE lookup(s[1])
           c1 == IF s[2] = "=" THEN 0 ELSE lookup(s[2])
           c2 == IF s[3] = "=" THEN 0 ELSE lookup(s[3])
           c3 == IF s[4] = "=" THEN 0 ELSE lookup(s[4])
           \* (c0 << 2) | (c1 >> 4), stored in a Uint8Array
           o0 == <<(c0 * 4 + c1 \div 16) % 256>>
           \* ((c1 << 4) | (c2 >> 2)) & 0xff
           o1 == IF s[3] # "=" THEN <<((c1 * 16) % 256) + c2 \div 4>> ELSE <<>>
           \* ((c2 << 6) | c3) & 0xff
           o2 == IF s[4] # "=" THEN <<((c2 * 64) % 256) + c3>> ELSE <<>>
       IN  o0 \o o1 \o o2 \o b64Groups(SubSeq(s, 5, Len(s)))

b64urlDecode(s) == b64Groups(padTo4(s))

\* least significant bit first where the code has 1 << (7 - (i & 7))
bitsToBytes_LsbFirst(bits) ==
  [b \in 1..CeilDiv8(Len(bits)) |->
     LET set == {k \in 0..7 : (b - 1) * 8 + k < Len(bits) /\ bits[(b - 1) * 8 + k + 1]}
         RECURSIVE sum(_)
         sum(S) == IF S = {} THEN 0
                   ELSE LET k == CHOOSE x \in S : TRUE IN Pow2(k) + sum(S \ {k})
     IN  sum(set)]

bitsToBytes(bits) ==
  [b \in 1..CeilDiv8(Len(bits)) |->
     LET set == {k \in 0..7 : (b - 1) * 8 + k < Len(bits) /\ bits[(b - 1) * 8 + k + 1]}
         RECURSIVE sum(_)
         sum(S) == IF S = {} THEN 0
                   ELSE LET k == CHOOSE x \in S : TRUE IN Pow2(7 - k) + sum(S \ {k})
     IN  sum(set)]

\* least significant bit first where the code has 7 - (i & 7)
bytesToBits_LsbFirst(data, nBits) ==
  [i1 \in 1..nBits |->
     LET i       == i1 - 1
         byteIdx == i \div 8
         bitIdx  == i % 8
     IN  IF byteIdx < Len(data) THEN (data[byteIdx + 1] \div Pow2(bitIdx)) % 2 = 1 ELSE FALSE]

bytesToBits(data, nBits) ==
  [i1 \in 1..nBits |->
     LET i       == i1 - 1
         byteIdx == i \div 8
         bitIdx  == 7 - (i % 8)
     IN  IF byteIdx < Len(data) THEN (data[byteIdx + 1] \div Pow2(bitIdx)) % 2 = 1 ELSE FALSE]

Digits == <<"0","1","2","3","4","5","6","7","8","9">>

IsDigit(ch) == \E k \in 1..10 : Digits[k] = ch

DigitValue(ch) == (CHOOSE k \in 1..10 : Digits[k] = ch) - 1

\* `${n}` for a non-negative integer
RECURSIVE ToDecimal(_)
ToDecimal(n) == IF n < 10 THEN <<Digits[n + 1]>> ELSE Append(ToDecimal(n \div 10), Digits[(n % 10) + 1])

NaN == [nan |-> TRUE, value |-> 0]

Num(n) == [nan |-> FALSE, value |-> n]

WhiteSpace == {" "}

\* parseInt(s, 10): leading white space, an optional sign, then the longest
\* prefix of digits; NaN when that prefix is empty
parseInt(s) ==
  LET n == Len(s)
      nonWs == {k \in 1..n : s[k] \notin WhiteSpace}
      a == IF nonWs = {} THEN n + 1 ELSE CHOOSE k \in nonWs : \A m \in nonWs : k <= m
      signed == a <= n /\ s[a] \in {"-", "+"}
      b == IF signed THEN a + 1 ELSE a
      nonDigit == {k \in b..n : ~IsDigit(s[k])}
      e == IF nonDigit = {} THEN n + 1 ELSE CHOOSE k \in nonDigit : \A m \in nonDigit : k <= m
      RECURSIVE val(_)
      val(k) == IF k < b THEN 0 ELSE val(k - 1) * 10 + DigitValue(s[k])
  IN  IF e = b THEN NaN
      ELSE Num(IF signed /\ s[a] = "-" THEN 0 - val(e - 1) ELSE val(e - 1))

RECURSIVE split(_, _)
split(s, sep) ==
  IF \A k \in 1..Len(s) : s[k] # sep THEN <<s>>
  ELSE LET i == CHOOSE k \in 1..Len(s) : s[k] = sep /\ \A m \in 1..(k - 1) : s[m] # sep
       IN  <<SubSeq(s, 1, i - 1)>> \o split(SubSeq(s, i + 1, Len(s)), sep)

RECURSIVE join(_, _)
join(fields, sep) ==
  IF Len(fields) = 0 THEN <<>>
  ELSE IF Len(fields) = 1 THEN fields[1]
  ELSE fields[1] \o <<sep>> \o join(Tail(fields), sep)

\* Math.round(value_mm * 10) of a value given in hundredths of a millimetre
MathRound10(h) == (h + 5) \div 10

\* storing a number in a Uint8Array keeps it modulo 2^8
ToUint8(n) == n % 256

(***************************************************************************)
(* lib/compact.ts : encode and decode                                      *)
(***************************************************************************)
\* the tile bits taken column by column
encode_ColumnMajor(plan) ==
  LET nRows == Rows(plan.tiles)
      nCols == Cols(plan.tiles)
      typeChar == IF plan.opengrid_type = "full" THEN "f" ELSE "l"
      screwBytes == <<ToUint8(MathRound10(plan.screw_size.diameter)),
                      ToUint8(MathRound10(plan.screw_size.head_diameter)),
                      ToUint8(MathRound10(plan.screw_size.head_inset))>>
      screwStr == b64urlEncode(screwBytes)
      tileBits == [k \in 1..(nRows * nCols) |->
                     plan.tiles[((k - 1) % nRows) + 1][((k - 1) \div nRows) + 1]]
      tilesStr == b64urlEncode(bitsToBytes(tileBits))
      featureBits == [k \in 1..((nRows + 1) * (nCols + 1)) |->
                        LET s == plan.summits[((k - 1) \div (nCols + 1)) + 1][((k - 1) % (nCols + 1)) + 1]
                        IN  s.connector_angle # null \/ s.tile_chamfer \/ s.screw]
      featuresStr == b64urlEncode(bitsToBytes(featureBits))
  IN  join(<<<<"0">>, <<typeChar>>, ToDecimal(nRows), ToDecimal(nCols),
             screwStr, tilesStr, featuresStr>>, ".")

encode(plan) ==
  LET nRows == Rows(plan.tiles)
      nCols == Cols(plan.tiles)
      typeChar == IF plan.opengrid_type = "full" THEN "f" ELSE "l"
      screwBytes == <<ToUint8(MathRound10(plan.screw_size.diameter)),
                      ToUint8(MathRound10(plan.screw_size.head_diameter)),
                      ToUint8(MathRound10(plan.screw_size.head_inset))>>
      screwStr == b64urlEncode(screwBytes)
      tileBits == [k \in 1..(nRows * nCols) |->
                     plan.tiles[((k - 1) \div nCols) + 1][((k - 1) % nCols) + 1]]
      tilesStr == b64urlEncode(bitsToBytes(tileBits))
      featureBits == [k \in 1..((nRows + 1) * (nCols + 1)) |->
                        LET s == plan.summits[((k - 1) \div (nCols + 1)) + 1][((k - 1) % (nCols + 1)) + 1]
                        IN  s.connector_angle # null \/ s.tile_chamfer \/ s.screw]
      featuresStr == b64urlEncode(bitsToBytes(featureBits))
  IN  join(<<<<"0">>, <<typeChar>>, ToDecimal(nRows), ToDecimal(nCols),
             screwStr, tilesStr, featuresStr>>, ".")

\* a thrown Error: decode returns no plan
Throw(e) == [err |-> e]

Return(p) == [err |-> "none", plan |-> p]

\* a last branch that sets the screw without testing screwEligible
decodeSummit_Unchecked(bit, t, connEligible, chamferEligible, screwEligible, i, j) ==
  IF bit
  THEN IF connEligible[i + 1][j + 1]
       THEN [emptySummit EXCEPT !.connector_angle = {computeConnectorDirection(t, i, j)}]
       ELSE IF chamferEligible[i + 1][j + 1]
       THEN [emptySummit EXCEPT !.tile_chamfer = TRUE]
       ELSE [emptySummit EXCEPT !.screw = TRUE]
  ELSE emptySummit

\* the summit loop of decode
decodeSummit(bit, t, connEligible, chamferEligible, screwEligible, i, j) ==
  IF bit
  THEN IF connEligible[i + 1][j + 1]
       THEN [emptySummit EXCEPT !.connector_angle = {computeConnectorDirection(t, i, j)}]
       ELSE IF chamferEligible[i + 1][j + 1]
       THEN [emptySummit EXCEPT !.tile_chamfer = TRUE]
       ELSE IF screwEligible[i + 1][j + 1]
       THEN [emptySummit EXCEPT !.screw = TRUE]
       ELSE emptySummit
  ELSE emptySummit

decode(c) ==
  LET parts == split(c, ".") IN
  IF Len(parts) # 7 THEN Throw("Expected 7 dot-separated parts") ELSE
  LET version     == parts[1]
      typeChar    == parts[2]
      rStr        == parts[3]
      cStr        == parts[4]
      screwStr    == parts[5]
      tilesStr    == parts[6]
      featuresStr == parts[7]
  IN
  IF version # <<"0">> THEN Throw("Unsupported version") ELSE
  IF typeChar # <<"f">> /\ typeChar # <<"l">> THEN Throw("Invalid type") ELSE
  LET opengridTypeOut == IF typeChar = <<"f">> THEN "full" ELSE "lite"
      nRows == parseInt(rStr)
      nCols == parseInt(cStr)
  IN
  IF nRows.nan \/ nCols.nan THEN Throw("Invalid dimensions") ELSE
  IF nRows.value < 1 \/ nCols.value < 1 THEN Throw("Dimensions must be >= 1") ELSE
  LET screwData == b64urlDecode(screwStr) IN
  IF Len(screwData) # 3 THEN Throw("Screw data must be 3 bytes") ELSE
  LET screwSizeOut == [diameter      |-> screwData[1] * 10,
                       head_diameter |-> screwData[2] * 10,
                       head_inset    |-> screwData[3] * 10]
      tilesData == b64urlDecode(tilesStr)
      nTileBits == nRows.value * nCols.value
  IN
  IF Len(tilesData) < CeilDiv8(nTileBits) THEN Throw("Insufficient tile data") ELSE
  LET tileBits == bytesToBits(tilesData, nTileBits)
      t == [r \in 1..nRows.value |-> [cc \in 1..nCols.value |->
              tileBits[(r - 1) * nCols.value + (cc - 1) + 1]]]
      connEligible    == computeEligibleConnectorPositions(t)
      chamferEligible == computeEligibleChamferPositions(t)
      screwEligible   == computeEligibleScrewPositions(t)
      featuresData == b64urlDecode(featuresStr)
      nFeatureBits == (nRows.value + 1) * (nCols.value + 1)
  IN
  IF Len(featuresData) < CeilDiv8(nFeatureBits) THEN Throw("Insufficient feature data") ELSE
  LET featureBits == bytesToBits(featuresData, nFeatureBits)
      s == [i1 \in 1..(nRows.value + 1) |-> [j1 \in 1..(nCols.value + 1) |->
              decodeSummit(featureBits[(i1 - 1) * (nCols.value + 1) + (j1 - 1) + 1], t,
                           connEligible, chamferEligible, screwEligible, i1 - 1, j1 - 1)]]
  IN  Return([tiles |-> t, summits |-> s, opengrid_type |-> opengridTypeOut,
              screw_size |-> screwSizeOut])

(***************************************************************************)
(* hooks/useGridState.ts                                                   *)
(***************************************************************************)
\* a position the eligibility grids do not cover keeps its fields
pruneSummits_KeepsUncovered(s, elig) ==
  [i1 \in 1..Len(s) |-> [j1 \in 1..Len(s[i1]) |->
     IF i1 <= Len(elig.connectors) /\ j1 <= Len(elig.connectors[i1])
     THEN [connector_angle |-> IF elig.connectors[i1][j1] THEN s[i1][j1].connector_angle ELSE null,
           tile_chamfer    |-> IF elig.chamfers[i1][j1] THEN s[i1][j1].tile_chamfer ELSE FALSE,
           screw           |-> IF elig.screws[i1][j1] THEN s[i1][j1].screw ELSE FALSE]
     ELSE s[i1][j1]]]

pruneSummits(s, elig) ==
  [i1 \in 1..Len(s) |-> [j1 \in 1..Len(s[i1]) |->
     [connector_angle |-> IF At(elig.connectors, i1 - 1, j1 - 1)
                          THEN s[i1][j1].connector_angle ELSE null,
      tile_chamfer    |-> IF At(elig.chamfers, i1 - 1, j1 - 1)
                          THEN s[i1][j1].tile_chamfer ELSE FALSE,
      screw           |-> IF At(elig.screws, i1 - 1, j1 - 1)
                          THEN s[i1][j1].screw ELSE FALSE]]]

\* the values the hook derives on every render
rows == Rows(tiles)

cols == Cols(tiles)

eligibility == computeAllEligibility(tiles)

toGridPlan ==
  [tiles |-> tiles, summits |-> summits, opengrid_type |-> opengridType,
   screw_size |-> screwSize]

\* the variables the editor never touches
IdleCodec == opts = "none" /\ code = <<>> /\ result = "none" /\ phase = "editor"

EditorInit ==
  /\ CadClientInit
  /\ \E R \in 1..MaxRows : \E C \in 1..MaxCols :
       /\ tiles = createEmptyGrid(R, C).tiles
       /\ summits = createEmptyGrid(R, C).summits
  /\ opengridType = "full"
  /\ screwSize = DEFAULT_SCREW_SIZE
  /\ IdleCodec

toggleTile(r, c) ==
  LET newTiles == [tiles EXCEPT ![r + 1][c + 1] = ~tiles[r + 1][c + 1]]
      newElig  == computeAllEligibility(newTiles)
  IN  /\ tiles' = newTiles
      /\ summits' = pruneSummits(summits, newElig)
      /\ UNCHANGED <<cadVars, opengridType, screwSize, opts, code, result, phase>>

\* the chamfer and the screw of the summit cleared along with the toggle
toggleConnectorOf_ClearsOthers(t, s, i, j) ==
  [tiles   |-> t,
   summits |-> IF ~(i >= 0 /\ i <= Rows(t) /\ j >= 0 /\ j <= Cols(t) /\ connectorAt(t, i, j))
               THEN s
               ELSE [s EXCEPT ![i + 1][j + 1] =
                       [connector_angle |-> IF s[i + 1][j + 1].connector_angle # null
                                            THEN null
                                            ELSE {computeConnectorDirection(t, i, j)},
                        tile_chamfer |-> FALSE,
                        screw |-> FALSE]]]

\* what toggleConnector leaves for tiles t and summits s: it calls setSummits
\* only, and only when eligibility.connectors[i]?.[j] holds
toggleConnectorOf(t, s, i, j) ==
  [tiles   |-> t,
   summits |-> IF ~(i >= 0 /\ i <= Rows(t) /\ j >= 0 /\ j <= Cols(t) /\ connectorAt(t, i, j))
               THEN s
               ELSE [s EXCEPT ![i + 1][j + 1].connector_angle =
                       IF s[i + 1][j + 1].connector_angle # null
                       THEN null
                       ELSE {computeConnectorDirection(t, i, j)}]]

toggleConnector(i, j) ==
  /\ summits' = toggleConnectorOf(tiles, summits, i, j).summits
  /\ tiles' = toggleConnectorOf(tiles, summits, i, j).tiles
  /\ UNCHANGED <<cadVars, opengridType, screwSize, opts, code, result, phase>>

\* what toggleChamfer leaves for tiles t and summits s
toggleChamferOf(t, s, i, j) ==
  [tiles   |-> t,
   summits |-> IF ~(i >= 0 /\ i <= Rows(t) /\ j >= 0 /\ j <= Cols(t) /\ chamferAt(t, i, j))
               THEN s
               ELSE [s EXCEPT ![i + 1][j + 1].tile_chamfer = ~s[i + 1][j + 1].tile_chamfer]]

toggleChamfer(i, j) ==
  /\ summits' = toggleChamferOf(tiles, summits, i, j).summits
  /\ tiles' = toggleChamferOf(tiles, summits, i, j).tiles
  /\ UNCHANGED <<cadVars, opengridType, screwSize, opts, code, result, phase>>

\* what toggleScrew leaves for tiles t and summits s
toggleScrewOf(t, s, i, j) ==
  [tiles   |-> t,
   summits |-> IF ~(i >= 0 /\ i <= Rows(t) /\ j >= 0 /\ j <= Cols(t) /\ screwAt(t, i, j))
               THEN s
               ELSE [s EXCEPT ![i + 1][j + 1].screw = ~s[i + 1][j + 1].screw]]

toggleScrew(i, j) ==
  /\ summits' = toggleScrewOf(tiles, summits, i, j).summits
  /\ tiles' = toggleScrewOf(tiles, summits, i, j).tiles
  /\ UNCHANGED <<cadVars, opengridType, screwSize, opts, code, result, phase>>

\* what addRow's two updaters return for tiles t and summits s (cols is the
\* column count the callback captured)
addRowOf(t, s, nCols) ==
  [tiles   |-> Append(t, [c \in 1..nCols |-> TRUE]),
   summits |-> Append(s, [j \in 1..(nCols + 1) |-> emptySummit])]

addRow ==
  /\ rows + 1 <= MaxRows
  /\ tiles' = addRowOf(tiles, summits, cols).tiles
  /\ summits' = addRowOf(tiles, summits, cols).summits
  /\ UNCHANGED <<cadVars, opengridType, screwSize, opts, code, result, phase>>

\* eligibility computed from the tiles before the slice
removeRowOf_OldEligibility(t, s) ==
  IF Rows(t) <= 1
  THEN [tiles |-> t, summits |-> s]
  ELSE [tiles   |-> SubSeq(t, 1, Len(t) - 1),
        summits |-> pruneSummits(SubSeq(s, 1, Len(s) - 1), computeAllEligibility(t))]

\* no early return on the last row
removeRowOf_NoGuard(t, s) ==
  LET newTiles == SubSeq(t, 1, Len(t) - 1)
  IN  [tiles   |-> newTiles,
       summits |-> pruneSummits(SubSeq(s, 1, Len(s) - 1), computeAllEligibility(newTiles))]

\* what removeRow sets for tiles t and summits s
removeRowOf(t, s) ==
  IF Rows(t) <= 1
  THEN [tiles |-> t, summits |-> s]
  ELSE LET newTiles == SubSeq(t, 1, Len(t) - 1)
           newElig  == computeAllEligibility(newTiles)
           trimmed  == SubSeq(s, 1, Len(s) - 1)
       IN  [tiles |-> newTiles, summits |-> pruneSummits(trimmed, newElig)]

removeRow ==
  /\ tiles' = removeRowOf(tiles, summits).tiles
  /\ summits' = removeRowOf(tiles, summits).summits
  /\ UNCHANGED <<cadVars, opengridType, screwSize, opts, code, result, phase>>

\* a new summit appended to every row but the last
addColumnOf_ShortSummits(t, s) ==
  [tiles   |-> [r \in 1..Len(t) |-> Append(t[r], TRUE)],
   summits |-> [i \in 1..Len(s) |-> IF i < Len(s) THEN Append(s[i], emptySummit) ELSE s[i]]]

\* what addColumn's two updaters return for tiles t and summits s
addColumnOf(t, s) ==
  [tiles   |-> [r \in 1..Len(t) |-> Append(t[r], TRUE)],
   summits |-> [i \in 1..Len(s) |-> Append(s[i], emptySummit)]]

addColumn ==
  /\ cols + 1 <= MaxCols
  /\ tiles' = addColumnOf(tiles, summits).tiles
  /\ summits' = addColumnOf(tiles, summits).summits
  /\ UNCHANGED <<cadVars, opengridType, screwSize, opts, code, result, phase>>

\* what removeColumn sets for tiles t and summits s
removeColumnOf(t, s) ==
  IF Cols(t) <= 1
  THEN [tiles |-> t, summits |-> s]
  ELSE LET newTiles == [r \in 1..Len(t) |-> SubSeq(t[r], 1, Len(t[r]) - 1)]
           newElig  == computeAllEligibility(newTiles)
           trimmed  == [i \in 1..Len(s) |-> SubSeq(s[i], 1, Len(s[i]) - 1)]
       IN  [tiles |-> newTiles, summits |-> pruneSummits(trimmed, newElig)]

removeColumn ==
  /\ tiles' = removeColumnOf(tiles, summits).tiles
  /\ summits' = removeColumnOf(tiles, summits).summits
  /\ UNCHANGED <<cadVars, opengridType, screwSize, opts, code, result, phase>>

\* the loops of the enable* handlers visit next[i][j] for i <= rows, j <= cols
\* of the tiles t the handler was created with
InLoop(t, i1, j1) == i1 - 1 <= Rows(t) /\ j1 - 1 <= Cols(t)

\* what enableAllConnectors leaves for tiles t and summits s
enableAllConnectorsOf(t, s) ==
  [tiles   |-> t,
   summits |-> [i1 \in 1..Len(s) |-> [j1 \in 1..Len(s[i1]) |->
       IF /\ InLoop(t, i1, j1)
          /\ connectorAt(t, i1 - 1, j1 - 1)
          /\ s[i1][j1].connector_angle = null
       THEN [s[i1][j1] EXCEPT
               !.connector_angle = {computeConnectorDirection(t, i1 - 1, j1 - 1)}]
       ELSE s[i1][j1]]]]

enableAllConnectors ==
  /\ summits' = enableAllConnectorsOf(tiles, summits).summits
  /\ tiles' = enableAllConnectorsOf(tiles, summits).tiles
  /\ UNCHANGED <<cadVars, opengridType, screwSize, opts, code, result, phase>>

\* what enableAllChamfers leaves for tiles t and summits s
enableAllChamfersOf(t, s) ==
  [tiles   |-> t,
   summits |-> [i1 \in 1..Len(s) |-> [j1 \in 1..Len(s[i1]) |->
       IF InLoop(t, i1, j1) /\ chamferAt(t, i1 - 1, j1 - 1)
       THEN [s[i1][j1] EXCEPT !.tile_chamfer = TRUE]
       ELSE s[i1][j1]]]]

enableAllChamfers ==
  /\ summits' = enableAllChamfersOf(tiles, summits).summits
  /\ tiles' = enableAllChamfersOf(tiles, summits).tiles
  /\ UNCHANGED <<cadVars, opengridType, screwSize, opts, code, result, phase>>

\* what enableAllScrews leaves for tiles t and summits s
enableAllScrewsOf(t, s) ==
  [tiles   |-> t,
   summits |-> [i1 \in 1..Len(s) |-> [j1 \in 1..Len(s[i1]) |->
       IF InLoop(t, i1, j1) /\ screwAt(t, i1 - 1, j1 - 1)
       THEN [s[i1][j1] EXCEPT !.screw = TRUE]
       ELSE s[i1][j1]]]]

enableAllScrews ==
  /\ summits' = enableAllScrewsOf(tiles, summits).summits
  /\ tiles' = enableAllScrewsOf(tiles, summits).tiles
  /\ UNCHANGED <<cadVars, opengridType, screwSize, opts, code, result, phase>>

\* the corner screws added to the active ones, none cleared
enableCornerScrewsOf_OnlyAdds(t, s) ==
  LET corners == computeCornerScrewPositions(computeAllEligibility(t).screws)
  IN  [tiles   |-> t,
       summits |-> [i1 \in 1..Len(s) |-> [j1 \in 1..Len(s[i1]) |->
           IF InLoop(t, i1, j1) /\ screwAt(t, i1 - 1, j1 - 1)
           THEN [s[i1][j1] EXCEPT !.screw = s[i1][j1].screw \/ At(corners, i1 - 1, j1 - 1)]
           ELSE s[i1][j1]]]]

\* what enableCornerScrews leaves for tiles t and summits s
enableCornerScrewsOf(t, s) ==
  LET corners == computeCornerScrewPositions(computeAllEligibility(t).screws)
  IN  [tiles   |-> t,
       summits |-> [i1 \in 1..Len(s) |-> [j1 \in 1..Len(s[i1]) |->
           IF InLoop(t, i1, j1) /\ screwAt(t, i1 - 1, j1 - 1)
           THEN [s[i1][j1] EXCEPT !.screw = At(corners, i1 - 1, j1 - 1)]
           ELSE s[i1][j1]]]]

enableCornerScrews ==
  /\ summits' = enableCornerScrewsOf(tiles, summits).summits
  /\ tiles' = enableCornerScrewsOf(tiles, summits).tiles
  /\ UNCHANGED <<cadVars, opengridType, screwSize, opts, code, result, phase>>

clearAllConnectors ==
  /\ summits' = [i1 \in 1..Len(summits) |-> [j1 \in 1..Len(summits[i1]) |->
       [summits[i1][j1] EXCEPT !.connector_angle = null]]]
  /\ UNCHANGED <<cadVars, tiles, opengridType, screwSize, opts, code, result, phase>>

clearAllChamfers ==
  /\ summits' = [i1 \in 1..Len(summits) |-> [j1 \in 1..Len(summits[i1]) |->
       [summits[i1][j1] EXCEPT !.tile_chamfer = FALSE]]]
  /\ UNCHANGED <<cadVars, tiles, opengridType, screwSize, opts, code, result, phase>>

clearAllScrews ==
  /\ summits' = [i1 \in 1..Len(summits) |-> [j1 \in 1..Len(summits[i1]) |->
       [summits[i1][j1] EXCEPT !.screw = FALSE]]]
  /\ UNCHANGED <<cadVars, tiles, opengridType, screwSize, opts, code, result, phase>>

setOpengridType(type) ==
  /\ opengridType' = type
  /\ screwSize' = IF type = "lite" THEN LITE_DEFAULT_SCREW_SIZE ELSE DEFAULT_SCREW_SIZE
  /\ UNCHANGED <<cadVars, tiles, summits, opts, code, result, phase>>

ToggleTileStep == \E r \in 0..(rows - 1) : \E c \in 0..(cols - 1) : toggleTile(r, c)

ToggleConnectorStep == \E i \in 0..rows : \E j \in 0..cols : toggleConnector(i, j)

ToggleChamferStep == \E i \in 0..rows : \E j \in 0..cols : toggleChamfer(i, j)

ToggleScrewStep == \E i \in 0..rows : \E j \in 0..cols : toggleScrew(i, j)

SetOpengridTypeStep == \E type \in {"full", "lite"} : setOpengridType(type)

GridNext ==
  \/ ToggleTileStep
  \/ ToggleConnectorStep
  \/ ToggleChamferStep
  \/ ToggleScrewStep
  \/ addRow
  \/ removeRow
  \/ addColumn
  \/ removeColumn
  \/ enableAllConnectors
  \/ enableAllChamfers
  \/ enableAllScrews
  \/ enableCornerScrews
  \/ clearAllConnectors
  \/ clearAllChamfers
  \/ clearAllScrews

Next == GridNext

Spec == EditorInit /\ [][Next]_vars

(***************************************************************************)
(* Properties of the editor (specification Spec).                          *)
(***************************************************************************)
SummitIndices == {<<i1, j1>> \in (1..Len(summits)) \X (1..(MaxCols + 2)) : j1 <= Len(summits[i1])}

\* the feature kinds a summit record has active
ActiveKinds(s) ==
  {k \in {"connector", "chamfer", "screw"} :
     \/ k = "connector" /\ s.connector_angle # null
     \/ k = "chamfer" /\ s.tile_chamfer
     \/ k = "screw" /\ s.screw}

\* the feature kinds whose eligibility predicate holds at summit (i,j) of layout t
EligibleKinds(t, i, j) ==
  {k \in {"connector", "chamfer", "screw"} :
     \/ k = "connector" /\ connectorAt(t, i, j)
     \/ k = "chamfer" /\ chamferAt(t, i, j)
     \/ k = "screw" /\ screwAt(t, i, j)}

\* C1: in every state the editor reaches, no summit records an active
\* feature whose eligibility predicate is false for the current tiles.
C1_NoIneligibleFeature ==
  \A p \in SummitIndices :
    ActiveKinds(summits[p[1]][p[2]]) \subseteq EligibleKinds(tiles, p[1] - 1, p[2] - 1)

\* C3: in every state the editor reaches, every summit has at most one of
\* its three features active.
C3_AtMostOneActive ==
  \A p \in SummitIndices : Cardinality(ActiveKinds(summits[p[1]][p[2]])) <= 1

\* C4: for the plan toGridPlan returns in any state the editor reaches,
\* decode(encode(p)) reproduces p's tiles, its grid-type tag and, for every
\* summit, the same active feature kind and the same connector direction.
C4_EditorRoundTrip ==
  LET p == toGridPlan
      d == decode(encode(p))
  IN  /\ d.err = "none"
      /\ d.plan.tiles = p.tiles
      /\ d.plan.opengrid_type = p.opengrid_type
      /\ \A q \in SummitIndices :
           /\ ActiveKinds(d.plan.summits[q[1]][q[2]]) = ActiveKinds(p.summits[q[1]][q[2]])
           /\ d.plan.summits[q[1]][q[2]].connector_angle = p.summits[q[1]][q[2]].connector_angle

\* every cell of layout t is a tile
AllTiles(t) == \A r \in 1..Len(t) : \A c \in 1..Len(t[r]) : t[r][c]

\* tiles t is a rectangle and summits s has one more row and one more column
ShapeOK(t, s) ==
  /\ \A r \in 1..Len(t) : Len(t[r]) = Cols(t)
  /\ Len(s) = Rows(t) + 1
  /\ \A i \in 1..Len(s) : Len(s[i]) = Cols(t) + 1

\* C11: removeRow on a grid with exactly one row and removeColumn on a grid
\* with exactly one column leave tiles and summits unchanged, so that every
\* state the editor reaches, and every grid a removal gives from it, has at
\* least one row and one column.
C11_LastRowAndColumnKept ==
  /\ rows >= 1
  /\ cols >= 1
  /\ rows = 1 => removeRowOf(tiles, summits) = [tiles |-> tiles, summits |-> summits]
  /\ cols = 1 => removeColumnOf(tiles, summits) = [tiles |-> tiles, summits |-> summits]
  /\ Rows(removeRowOf(tiles, summits).tiles) >= 1
  /\ Cols(removeColumnOf(tiles, summits).tiles) >= 1

\* a grid down to one row and one column, with a chamfer on summit (0,1) and
\* none on (0,0): removeRow and removeColumn are both rejected here
C11_Witness ==
  /\ rows = 1
  /\ cols = 1
  /\ summits[1][2].tile_chamfer
  /\ summits[1][1].connector_angle = null /\ ~summits[1][1].tile_chamfer

\* C12: in every state the editor reaches tiles is a rectangular R x C array
\* and summits is (R+1) x (C+1), and only addRow, removeRow, addColumn and
\* removeColumn change R or C.
C12_ShapesInLockstep ==
  [][/\ ShapeOK(tiles', summits')
     /\ (rows' # rows \/ cols' # cols) => (addRow \/ removeRow \/ addColumn \/ removeColumn)]_vars

\* a 2 x 2 grid with a hole in it and a feature on a summit of the last
\* row and column
C12_Witness ==
  /\ rows = 2
  /\ cols = 2
  /\ ~tiles[1][1]
  /\ ActiveKinds(summits[3][3]) # {}

\* the grid that removing the last row, resp. column, gives back
RestoredBy(back) ==
  /\ back.tiles = tiles
  /\ \A p \in SummitIndices :
       \A k \in ActiveKinds(summits[p[1]][p[2]]) \cap EligibleKinds(back.tiles, p[1] - 1, p[2] - 1) :
         /\ k \in ActiveKinds(back.summits[p[1]][p[2]])
         /\ k = "connector" =>
              back.summits[p[1]][p[2]].connector_angle = summits[p[1]][p[2]].connector_angle

\* C13: on an all-tile grid in an eligibility-consistent state, addRow
\* followed by removeRow, and addColumn followed by removeColumn, restores
\* the tiles and keeps every feature that was active and is still eligible,
\* with the same connector direction.
C13_AddThenRemoveRestores ==
  (AllTiles(tiles) /\ C1_NoIneligibleFeature) =>
    LET r == addRowOf(tiles, summits, cols)
        c == addColumnOf(tiles, summits)
    IN  /\ RestoredBy(removeRowOf(r.tiles, r.summits))
        /\ RestoredBy(removeColumnOf(c.tiles, c.summits))

\* a consistent one-row all-tile grid with a connector on its lower edge,
\* where addRow makes a screw position, and a chamfer on its top right
\* corner, where addColumn makes a connector position
C13_Witness ==
  /\ rows = 1
  /\ cols = 2
  /\ AllTiles(tiles)
  /\ C1_NoIneligibleFeature
  /\ summits[2][2].connector_angle # null
  /\ summits[1][3].tile_chamfer

\* C23: in every state the editor reaches, every active connector holds the
\* direction computeConnectorDirection gives for the current tiles, one of
\* -90, 0, 90, 180.
C23_ConnectorDirectionCurrent ==
  \A p \in SummitIndices :
    LET angle == summits[p[1]][p[2]].connector_angle
    IN  angle # null =>
          /\ angle = {computeConnectorDirection(tiles, p[1] - 1, p[2] - 1)}
          /\ angle \subseteq {-90, 0, 90, 180}

\* summits with field f of summit (i,j) set to v and nothing else changed
WithField(i, j, f, v) ==
  [i1 \in 1..Len(summits) |-> [j1 \in 1..Len(summits[i1]) |->
     IF i1 = i + 1 /\ j1 = j + 1
     THEN [k \in {"connector_angle", "tile_chamfer", "screw"} |->
             IF k = f THEN v ELSE summits[i1][j1][k]]
     ELSE summits[i1][j1]]]

\* C24: toggleConnector, toggleChamfer and toggleScrew at summit (i,j) leave
\* the whole state unchanged when (i,j) is not eligible for the feature under
\* the current tiles; when it is eligible they flip that one field of that
\* one summit (a connector is activated with computeConnectorDirection) and
\* leave tiles, the shape, every other summit and the other two fields alone.
C24_ToggleFrame ==
  \A i \in 0..rows : \A j \in 0..cols :
    LET s == summits[i + 1][j + 1]
        unchanged == [tiles |-> tiles, summits |-> summits]
    IN  /\ toggleConnectorOf(tiles, summits, i, j) =
             (IF ~connectorAt(tiles, i, j) THEN unchanged
              ELSE [tiles |-> tiles,
                    summits |-> WithField(i, j, "connector_angle",
                                  IF s.connector_angle = null
                                  THEN {computeConnectorDirection(tiles, i, j)} ELSE null)])
        /\ toggleChamferOf(tiles, summits, i, j) =
             (IF ~chamferAt(tiles, i, j) THEN unchanged
              ELSE [tiles |-> tiles, summits |-> WithField(i, j, "tile_chamfer", ~s.tile_chamfer)])
        /\ toggleScrewOf(tiles, summits, i, j) =
             (IF ~screwAt(tiles, i, j) THEN unchanged
              ELSE [tiles |-> tiles, summits |-> WithField(i, j, "screw", ~s.screw)])

\* a connector toggled on at summit (0,1) of the 1 x 2 grid, where a chamfer
\* set before addColumn is still recorded: the toggle left the chamfer alone
C24_Witness ==
  /\ rows = 1 /\ cols = 2
  /\ AllTiles(tiles)
  /\ summits[1][2].connector_angle = {-90}
  /\ summits[1][2].tile_chamfer

(***************************************************************************)
(* The plan builder (spec section 4.2) and its round trip through the      *)
(* codec (specification PlanSpec).                                         *)
(***************************************************************************)
buildPlan(layout, o) ==
  LET elig    == computeAllEligibility(layout)
      corners == computeCornerScrewPositions(elig.screws)
  IN  [tiles |-> layout,
       summits |-> [i1 \in 1..(Rows(layout) + 1) |-> [j1 \in 1..(Cols(layout) + 1) |->
          [connector_angle |-> IF o.connectors /\ elig.connectors[i1][j1]
                               THEN {computeConnectorDirection(layout, i1 - 1, j1 - 1)}
                               ELSE null,
           tile_chamfer    |-> o.tile_chamfers /\ elig.chamfers[i1][j1],
           screw           |-> \/ o.screws = "all" /\ elig.screws[i1][j1]
                               \/ o.screws = "corners" /\ corners[i1][j1]]]],
       opengrid_type |-> o.grid_type,
       screw_size |-> o.screw_size]

\* every layout of r x c slots within the bounds
PlanShapes ==
  {d \in (1..MaxPlanRows) \X (1..MaxPlanCols) : d[1] * d[2] <= MaxPlanCells}

Layouts == UNION {[1..d[1] -> [1..d[2] -> BOOLEAN]] : d \in PlanShapes}

\* screw sizes that are whole tenths of a millimetre within 0..255
PlanScrewSizes ==
  {DEFAULT_SCREW_SIZE, [diameter |-> 0, head_diameter |-> 2550, head_inset |-> 1280]}

Options ==
  [connectors : BOOLEAN, tile_chamfers : BOOLEAN, screws : {"none", "corners", "all"},
   grid_type : {"full", "lite"}, screw_size : PlanScrewSizes]

PlanInit ==
  /\ CadClientInit
  /\ tiles \in Layouts
  /\ opts \in Options
  /\ summits = <<>>
  /\ opengridType = "full"
  /\ screwSize = DEFAULT_SCREW_SIZE
  /\ code = <<>>
  /\ result = "none"
  /\ phase = "input"

BuildPlan ==
  /\ phase = "input"
  /\ summits' = buildPlan(tiles, opts).summits
  /\ opengridType' = buildPlan(tiles, opts).opengrid_type
  /\ screwSize' = buildPlan(tiles, opts).screw_size
  /\ phase' = "built"
  /\ UNCHANGED <<cadVars, tiles, opts, code, result>>

EncodePlan ==
  /\ phase = "built"
  /\ code' = encode(toGridPlan)
  /\ phase' = "encoded"
  /\ UNCHANGED <<cadVars, tiles, summits, opengridType, screwSize, opts, result>>

DecodeCode ==
  /\ phase = "encoded"
  /\ result' = decode(code)
  /\ phase' = "decoded"
  /\ UNCHANGED <<cadVars, tiles, summits, opengridType, screwSize, opts, code>>

PlanNext == BuildPlan \/ EncodePlan \/ DecodeCode

PlanSpec == PlanInit /\ [][PlanNext]_vars

\* C2: for every layout and every summit of its summit grid, at most one of
\* the three eligibility grids is true there.
C2_MutuallyExclusive ==
  LET e == computeAllEligibility(tiles)
  IN  \A i1 \in 1..(rows + 1) : \A j1 \in 1..(cols + 1) :
        Cardinality({k \in {"connector", "chamfer", "screw"} :
                       \/ k = "connector" /\ e.connectors[i1][j1]
                       \/ k = "chamfer" /\ e.chamfers[i1][j1]
                       \/ k = "screw" /\ e.screws[i1][j1]}) <= 1

\* a layout, with holes, on which each of the three predicates holds somewhere
C2_Witness ==
  LET e == computeAllEligibility(tiles)
  IN  /\ phase = "built"
      /\ \E r \in 1..rows : \E c \in 1..cols : ~tiles[r][c]
      /\ \E i1 \in 1..(rows + 1) : \E j1 \in 1..(cols + 1) : e.connectors[i1][j1]
      /\ \E i1 \in 1..(rows + 1) : \E j1 \in 1..(cols + 1) : e.chamfers[i1][j1]
      /\ \E i1 \in 1..(rows + 1) : \E j1 \in 1..(cols + 1) : e.screws[i1][j1]

\* C5: for every layout within the bound and every option combination, the
\* plan built from them survives decode(encode(plan)) field for field.
C5_BuildPlanRoundTrip ==
  phase = "decoded" => result = Return(toGridPlan)

\* a decoded plan with connectors, chamfers and corner screws that are a
\* proper subset of the eligible screws, of type lite
C5_Witness ==
  /\ phase = "decoded"
  /\ opts.connectors /\ opts.tile_chamfers /\ opts.screws = "corners"
  /\ opts.grid_type = "lite"
  /\ result.err = "none"
  /\ \E i1 \in 1..(rows + 1) : \E j1 \in 1..(cols + 1) :
       screwAt(tiles, i1 - 1, j1 - 1) /\ ~result.plan.summits[i1][j1].screw
  /\ \E i1 \in 1..(rows + 1) : \E j1 \in 1..(cols + 1) : result.plan.summits[i1][j1].screw
  /\ \E i1 \in 1..(rows + 1) : \E j1 \in 1..(cols + 1) : result.plan.summits[i1][j1].tile_chamfer
  /\ \E i1 \in 1..(rows + 1) : \E j1 \in 1..(cols + 1) :
       result.plan.summits[i1][j1].connector_angle # null

(***************************************************************************)
(* decode applied to arbitrary codes (specification DecodeSpec).           *)
(***************************************************************************)
\* every sequence of n bits
BitVectors(n) == [1..n -> BOOLEAN]

CodeShapes ==
  {d \in (1..MaxCodeSummits) \X (1..MaxCodeSummits) : (d[1] + 1) * (d[2] + 1) <= MaxCodeSummits}

\* codes with a well-formed header, every tile bitmap and every summit bitmap
WellFormedCodes ==
  UNION {{join(<<<<"0">>, <<"f">>, ToDecimal(d[1]), ToDecimal(d[2]), <<"K","l","A","K">>,
                 b64urlEncode(bitsToBytes(tb)), b64urlEncode(bitsToBytes(fb))>>, ".") :
            <<tb, fb>> \in BitVectors(d[1] * d[2]) \X BitVectors((d[1] + 1) * (d[2] + 1))} :
         d \in CodeShapes}

\* codes assembled from good and bad fields, with a field missing or added
FieldChoices ==
  [version  : {<<"0">>, <<"1">>},
   typeChar : {<<"f">>, <<"l">>, <<"x">>},
   rStr     : {<<"1">>, <<"2">>, <<"0">>, <<"2","x">>, <<>>, <<" ","1">>, <<"x">>, <<"-","1">>},
   cStr     : {<<"1">>, <<"2","x">>, <<"0">>},
   screw    : {<<"A","A","A","A">>, <<"K","l","A">>},
   tilesStr : {<<"8","A">>, <<>>},
   features : {<<"_","4","A">>, <<>>},
   nParts   : {6, 7, 8}]

AssembledCode(f) ==
  LET all == <<f.version, f.typeChar, f.rStr, f.cStr, f.screw, f.tilesStr, f.features, <<"A">>>>
  IN  join(SubSeq(all, 1, f.nParts), ".")

AssembledCodes == {AssembledCode(f) : f \in FieldChoices}

\* the compact code of the README's "Compact codes" section
README_COMPACT_CODE ==
  <<"0", ".", "f", ".", "2", ".", "2", ".", "K", "l", "A", "K", ".", "8", "A", ".", "_", "4", "A">>

\* the compact code of the README's "CLI usage" section
README_CLI_CODE ==
  <<"0", ".", "f", ".", "4", ".", "2", ".", "K", "l", "A", "K", ".", "_", "w", ".", "f", "-", "A">>

ReadmeCodes == {README_COMPACT_CODE, README_CLI_CODE}

DecodeInit ==
  /\ CadClientInit
  /\ code \in WellFormedCodes \cup AssembledCodes \cup ReadmeCodes
  /\ tiles = <<>>
  /\ summits = <<>>
  /\ opengridType = "full"
  /\ screwSize = DEFAULT_SCREW_SIZE
  /\ opts = "none"
  /\ result = "none"
  /\ phase = "input"

DecodeStep ==
  /\ phase = "input"
  /\ result' = decode(code)
  /\ phase' = "decoded"
  /\ UNCHANGED <<cadVars, tiles, summits, opengridType, screwSize, opts, code>>

DecodeNext == DecodeStep

DecodeSpec == DecodeInit /\ [][DecodeNext]_vars

\* the fields of the code and what the claims say about them
CodeParts == split(code, ".")

IsDecimalNumeral(s) == Len(s) >= 1 /\ \A k \in 1..Len(s) : IsDigit(s[k])

DimensionErrors == {"Invalid dimensions", "Dimensions must be >= 1"}

\* the number (1..7) of the first validation condition of the claim that the
\* code violates, 0 when it violates none
FirstViolation ==
  LET p == CodeParts IN
  IF Len(p) # 7 THEN 1
  ELSE IF p[1] # <<"0">> THEN 2
  ELSE IF p[2] \notin {<<"f">>, <<"l">>} THEN 3
  ELSE LET r == parseInt(p[3])
           c == parseInt(p[4])
       IN  IF r.nan \/ c.nan \/ r.value < 1 \/ c.value < 1 THEN 4
           ELSE IF Len(b64urlDecode(p[5])) # 3 THEN 5
           ELSE IF Len(b64urlDecode(p[6])) * 8 < r.value * c.value THEN 6
           ELSE IF Len(b64urlDecode(p[7])) * 8 < (r.value + 1) * (c.value + 1) THEN 7
           ELSE 0

ExpectedErrors ==
  <<{"Expected 7 dot-separated parts"}, {"Unsupported version"}, {"Invalid type"},
    DimensionErrors, {"Screw data must be 3 bytes"}, {"Insufficient tile data"},
    {"Insufficient feature data"}>>

\* the summit activity bit of the code at summit (i,j) of an R x C grid
CodeBit(i, j) ==
  LET p == CodeParts
      c == parseInt(p[4]).value
      r == parseInt(p[3]).value
  IN  bytesToBits(b64urlDecode(p[7]), (r + 1) * (c + 1))[i * (c + 1) + j + 1]

\* C6: every code that passes validation decodes, without raising, to an
\* eligibility-consistent plan: at most one feature per summit, only where
\* its predicate holds for the decoded tiles, connector angles as
\* computeConnectorDirection gives them, and a set bit where no predicate
\* holds yields an empty summit.
C6_DecodeConsistent ==
  (phase = "decoded" /\ FirstViolation = 0) =>
    /\ result.err = "none"
    /\ LET p == result.plan IN
       \A i1 \in 1..Len(p.summits) : \A j1 \in 1..Len(p.summits[i1]) :
         LET s == p.summits[i1][j1] IN
         /\ Cardinality(ActiveKinds(s)) <= 1
         /\ ActiveKinds(s) \subseteq EligibleKinds(p.tiles, i1 - 1, j1 - 1)
         /\ s.connector_angle # null =>
              s.connector_angle = {computeConnectorDirection(p.tiles, i1 - 1, j1 - 1)}
         /\ (CodeBit(i1 - 1, j1 - 1) /\ EligibleKinds(p.tiles, i1 - 1, j1 - 1) = {}) =>
              s = emptySummit
         /\ (CodeBit(i1 - 1, j1 - 1) /\ EligibleKinds(p.tiles, i1 - 1, j1 - 1) # {}) =>
              ActiveKinds(s) = EligibleKinds(p.tiles, i1 - 1, j1 - 1)

\* a decoded plan whose code had a bit set at a summit where nothing is
\* eligible, next to a summit that did get a connector
C6_Witness ==
  /\ phase = "decoded"
  /\ FirstViolation = 0
  /\ result.err = "none"
  /\ \E i1 \in 1..Len(result.plan.summits) : \E j1 \in 1..Len(result.plan.summits[i1]) :
       /\ CodeBit(i1 - 1, j1 - 1)
       /\ EligibleKinds(result.plan.tiles, i1 - 1, j1 - 1) = {}
       /\ result.plan.summits[i1][j1] = emptySummit
  /\ \E i1 \in 1..Len(result.plan.summits) : \E j1 \in 1..Len(result.plan.summits[i1]) :
       result.plan.summits[i1][j1].connector_angle # null

\* C7: decode raises, and returns no plan, whenever one of the seven
\* validation conditions holds; the error is the one of the first condition
\* that holds, and the seven errors are pairwise distinct.
C7_ValidationOrder ==
  /\ \A a \in 1..7 : \A b \in 1..7 : a # b => ExpectedErrors[a] \cap ExpectedErrors[b] = {}
  /\ (phase = "decoded" /\ FirstViolation # 0) =>
       /\ result.err \in ExpectedErrors[FirstViolation]
       /\ DOMAIN result = {"err"}

\* a code with a missing tile payload and a missing summit payload behind a
\* good header: the tile error is the one raised
C7_Witness ==
  /\ phase = "decoded"
  /\ FirstViolation = 6
  /\ Len(b64urlDecode(CodeParts[7])) = 0
  /\ result.err = "Insufficient tile data"

\* C8: decode rejects with the dimension error every code whose rows or cols
\* field is not a decimal numeral.
C8_NonNumericRejected ==
  (/\ phase = "decoded"
   /\ Len(CodeParts) = 7
   /\ CodeParts[1] = <<"0">>
   /\ CodeParts[2] \in {<<"f">>, <<"l">>}
   /\ ~(IsDecimalNumeral(CodeParts[3]) /\ IsDecimalNumeral(CodeParts[4])))
  => result.err \in DimensionErrors

\* a summit record with only a connector of direction a, only a chamfer,
\* only a screw
ConnectorOnly(a) == [connector_angle |-> {a}, tile_chamfer |-> FALSE, screw |-> FALSE]

ChamferOnly == [connector_angle |-> null, tile_chamfer |-> TRUE, screw |-> FALSE]

ScrewOnly == [connector_angle |-> null, tile_chamfer |-> FALSE, screw |-> TRUE]

\* the plan the README describes: 2 x 2 full grid, all tiles present, default
\* screws, a feature active at each of the 9 summits
ReadmePlan ==
  [tiles |-> <<<<TRUE, TRUE>>, <<TRUE, TRUE>>>>,
   summits |-> <<<<ChamferOnly, ConnectorOnly(-90), ChamferOnly>>,
                 <<ConnectorOnly(0), ScrewOnly, ConnectorOnly(180)>>,
                 <<ChamferOnly, ConnectorOnly(90), ChamferOnly>>>>,
   opengrid_type |-> "full",
   screw_size |-> [diameter |-> 420, head_diameter |-> 800, head_inset |-> 100]]

\* C19: decode of the README code 0.f.2.2.KlAK.8A._4A returns the 2 x 2 full
\* all-tile plan with the default screw size and a feature at each of the 9
\* summits (4 corner chamfers, 4 edge connectors, 1 centre screw), and encode
\* of that plan returns exactly that string.
C19_ReadmeCompactCode ==
  /\ (phase = "decoded" /\ code = README_COMPACT_CODE) =>
       /\ result = Return(ReadmePlan)
       /\ result.plan.screw_size = DEFAULT_SCREW_SIZE
       /\ \A r \in 1..2 : \A c \in 1..2 : result.plan.tiles[r][c]
       /\ \A i \in 1..3 : \A j \in 1..3 :
            ActiveKinds(result.plan.summits[i][j]) =
              (IF i = 2 /\ j = 2 THEN {"screw"}
               ELSE IF i # 2 /\ j # 2 THEN {"chamfer"} ELSE {"connector"})
  /\ (phase = "decoded" /\ result = Return(ReadmePlan)) =>
       encode(result.plan) = README_COMPACT_CODE

\* the README code decoded, with the centre screw and a corner chamfer
C19_Witness ==
  /\ phase = "decoded"
  /\ code = README_COMPACT_CODE
  /\ result.err = "none"
  /\ result.plan.summits[2][2].screw
  /\ result.plan.summits[1][1].tile_chamfer

\* C20: decoding the README code 0.f.4.2.KlAK._w.f-A yields a 4 x 2 all-tile
\* grid whose active features are exactly a connector at every
\* connector-eligible summit and a screw at every corner-screw summit, with
\* no chamfer and no other screw.
C20_ReadmeCliCode ==
  (phase = "decoded" /\ code = README_CLI_CODE) =>
    /\ result.err = "none"
    /\ Rows(result.plan.tiles) * Cols(result.plan.tiles) = 8
    /\ AllTiles(result.plan.tiles)
    /\ LET t == result.plan.tiles
           corners == computeCornerScrewPositions(computeEligibleScrewPositions(t))
       IN  \A i \in 1..(Rows(t) + 1) : \A j \in 1..(Cols(t) + 1) :
             /\ result.plan.summits[i][j].connector_angle # null <=> connectorAt(t, i - 1, j - 1)
             /\ result.plan.summits[i][j].screw <=> corners[i][j]
             /\ ~result.plan.summits[i][j].tile_chamfer

(***************************************************************************)
(* The settings of the editor: grid type and screw size (specification     *)
(* SettingsSpec).                                                          *)
(***************************************************************************)
\* what parseFloat(e.target.value) can give: NaN or a number (in hundredths)
ScrewInputs == {NaN, Num(0), Num(425), Num(800), Num(2550), Num(3000), Num(-100)}

ScrewFields == {"diameter", "head_diameter", "head_inset"}

\* ScrewField's onChange: {...screwSize, [field]: parseFloat(value) || 0}
ScrewField(field, parsed) ==
  /\ screwSize' = [screwSize EXCEPT ![field] = IF parsed.nan THEN 0 ELSE parsed.value]
  /\ UNCHANGED <<cadVars, tiles, summits, opengridType, opts, code, result, phase>>

ScrewFieldStep == \E field \in ScrewFields : \E parsed \in ScrewInputs : ScrewField(field, parsed)

SettingsNext == SetOpengridTypeStep \/ ScrewFieldStep

SettingsSpec == EditorInit /\ [][SettingsNext]_vars

\* C9: no operation stores a screw size with a non-positive dimension or
\* with head_diameter <= diameter, nor a grid with a dimension below 1.
C9_ParametersValid ==
  /\ screwSize.diameter > 0
  /\ screwSize.head_diameter > 0
  /\ screwSize.head_inset > 0
  /\ screwSize.head_diameter > screwSize.diameter
  /\ rows >= 1
  /\ cols >= 1

Abs(n) == IF n < 0 THEN 0 - n ELSE n

\* C10: for every screw size the editor holds, decode(encode(plan)) returns
\* the plan's screw size to 0.1 mm.
C10_ScrewSizeRoundTrip ==
  LET d == decode(encode(toGridPlan))
  IN  /\ d.err = "none"
      /\ \A f \in ScrewFields : Abs(d.plan.screw_size[f] - screwSize[f]) <= 10

(***************************************************************************)
(* pruneSummits on its own (specification PruneSpec): summit grids s and   *)
(* eligibility grids e of independent shapes.                              *)
(***************************************************************************)
MaxPruneSummits == 2

PruneShapes ==
  {sh \in (1..MaxPruneSummits) \X (1..MaxPruneSummits) : sh[1] * sh[2] <= MaxPruneSummits}

\* any summit record, with none, one or several fields active
SummitValues == [connector_angle : {null, {90}}, tile_chamfer : BOOLEAN, screw : BOOLEAN]

SummitGrids == UNION {[1..sh[1] -> [1..sh[2] -> SummitValues]] : sh \in PruneShapes}

\* per position, the feature kinds that are eligible there: none, one or all
KindGrids ==
  UNION {[1..sh[1] -> [1..sh[2] -> {"none", "connector", "chamfer", "screw", "all"}]] : sh \in PruneShapes}

EligibilityOf(g) ==
  [connectors |-> [i \in 1..Len(g) |-> [j \in 1..Len(g[i]) |-> g[i][j] \in {"connector", "all"}]],
   chamfers   |-> [i \in 1..Len(g) |-> [j \in 1..Len(g[i]) |-> g[i][j] \in {"chamfer", "all"}]],
   screws     |-> [i \in 1..Len(g) |-> [j \in 1..Len(g[i]) |-> g[i][j] \in {"screw", "all"}]]]

PruneInit ==
  /\ CadClientInit
  /\ tiles = <<>>
  /\ summits \in SummitGrids
  /\ opts \in {EligibilityOf(g) : g \in KindGrids}
  /\ opengridType = "full"
  /\ screwSize = DEFAULT_SCREW_SIZE
  /\ code = <<>>
  /\ result = "none"
  /\ phase = "input"

PruneStep ==
  /\ phase = "input"
  /\ result' = pruneSummits(summits, opts)
  /\ phase' = "pruned"
  /\ UNCHANGED <<cadVars, tiles, summits, opengridType, screwSize, opts, code>>

PruneNext == PruneStep

PruneSpec == PruneInit /\ [][PruneNext]_vars

\* grid g has an entry at row i, column j (from 1) and it is TRUE
HoldsAt(g, i, j) == i \in 1..Len(g) /\ j \in 1..Len(g[i]) /\ g[i][j]

\* C14: pruneSummits is idempotent and never activates anything: pruning the
\* result again changes nothing, and every field of the result is the input
\* field where its predicate holds in e and inactive otherwise, also where
\* e has no entry.
C14_PruneIdempotent ==
  phase = "pruned" =>
    /\ pruneSummits(result, opts) = result
    /\ Len(result) = Len(summits)
    /\ \A i \in 1..Len(summits) :
         /\ Len(result[i]) = Len(summits[i])
         /\ \A j \in 1..Len(summits[i]) :
              /\ result[i][j].connector_angle =
                   (IF HoldsAt(opts.connectors, i, j) THEN summits[i][j].connector_angle ELSE null)
              /\ result[i][j].tile_chamfer = (HoldsAt(opts.chamfers, i, j) /\ summits[i][j].tile_chamfer)
              /\ result[i][j].screw = (HoldsAt(opts.screws, i, j) /\ summits[i][j].screw)
              /\ ActiveKinds(result[i][j]) \subseteq ActiveKinds(summits[i][j])

\* two summits pruned against a one-entry eligibility: the chamfer of the
\* covered summit is kept, its screw and the screw of the uncovered summit
\* are cleared
C14_Witness ==
  /\ phase = "pruned"
  /\ Len(summits) = 1 /\ Len(summits[1]) = 2
  /\ Len(opts.chamfers) = 1 /\ Len(opts.chamfers[1]) = 1
  /\ opts.chamfers[1][1]
  /\ summits[1][1].tile_chamfer /\ summits[1][1].screw /\ summits[1][2].screw
  /\ result[1][1].tile_chamfer /\ ~result[1][1].screw /\ ~result[1][2].screw

(***************************************************************************)
(* The enable-all handlers on a fixed layout (specification LayoutSpec):   *)
(* the editor after createEmptyGrid and the toggleTile calls that give the *)
(* layout, every summit still empty.                                       *)
(***************************************************************************)
MaxLayoutCells == 6

MaxAllTileSide == 5

LayoutShapes ==
  {d \in (1..MaxLayoutCells) \X (1..MaxLayoutCells) : d[1] * d[2] <= MaxLayoutCells}

\* every layout of up to MaxLayoutCells slots, and the all-tile grids of up
\* to MaxAllTileSide rows and columns
EditorLayouts ==
  (UNION {[1..d[1] -> [1..d[2] -> BOOLEAN]] : d \in LayoutShapes})
    \cup {createEmptyGrid(R, C).tiles : R \in 1..MaxAllTileSide, C \in 1..MaxAllTileSide}

LayoutInit ==
  /\ CadClientInit
  /\ tiles \in EditorLayouts
  /\ summits = createEmptyGrid(rows, cols).summits
  /\ opengridType = "full"
  /\ screwSize = DEFAULT_SCREW_SIZE
  /\ IdleCodec

LayoutNext ==
  \/ enableAllConnectors
  \/ enableAllChamfers
  \/ enableAllScrews
  \/ enableCornerScrews
  \/ SetOpengridTypeStep

LayoutSpec == LayoutInit /\ [][LayoutNext]_vars

\* which of the four neighbours of summit (i,j) are tiles
NeighbourTiles(t, i, j) ==
  {n \in {"tl", "tr", "bl", "br"} :
     \/ n = "tl" /\ isTile(t, i - 1, j - 1)
     \/ n = "tr" /\ isTile(t, i - 1, j)
     \/ n = "bl" /\ isTile(t, i, j - 1)
     \/ n = "br" /\ isTile(t, i, j)}

EdgePairs == {{"tl", "tr"}, {"bl", "br"}, {"tl", "bl"}, {"tr", "br"}}

\* C15: for each of the 16 neighbour patterns of a summit: screw-eligible
\* iff all four neighbours are tiles, chamfer-eligible iff exactly one is,
\* connector-eligible iff exactly two are and they share an edge; with no
\* tile, two diagonal tiles or three tiles nothing is eligible.
C15_EligibilityByPattern ==
  LET e == computeAllEligibility(tiles)
  IN  \A i1 \in 1..(rows + 1) : \A j1 \in 1..(cols + 1) :
        LET n == NeighbourTiles(tiles, i1 - 1, j1 - 1)
        IN  /\ e.screws[i1][j1] <=> Cardinality(n) = 4
            /\ e.chamfers[i1][j1] <=> Cardinality(n) = 1
            /\ e.connectors[i1][j1] <=> (Cardinality(n) = 2 /\ n \in EdgePairs)
            /\ (Cardinality(n) \in {0, 3} \/ n \in {{"tl", "br"}, {"tr", "bl"}}) =>
                 ~e.screws[i1][j1] /\ ~e.chamfers[i1][j1] /\ ~e.connectors[i1][j1]

\* the 2 x 2 layout with tiles on one diagonal after enableAllChamfers: its
\* corner summits (0,0) and (2,2) hold a chamfer, the centre and the other
\* corners hold nothing
C15_Witness ==
  /\ rows = 2 /\ cols = 2
  /\ tiles[1][1] /\ tiles[2][2] /\ ~tiles[1][2] /\ ~tiles[2][1]
  /\ summits[1][1].tile_chamfer /\ summits[3][3].tile_chamfer
  /\ summits[2][2] = emptySummit /\ summits[1][3] = emptySummit

\* the direction the claim gives for the neighbours n that are tiles
ExpectedDirection(n) ==
  IF n = {"bl", "br"} THEN -90
  ELSE IF n = {"tl", "tr"} THEN 90
  ELSE IF n = {"tr", "br"} THEN 0
  ELSE IF n = {"tl", "bl"} THEN 180
  ELSE 0

\* C16: computeConnectorDirection gives -90 for a horizontal split with the
\* tiles below and 90 with the tiles above, 0 for a vertical split with the
\* tiles on the right and 180 with the tiles on the left, 0 when there is no
\* split; every connector the editor enables holds that value; summit (0,1)
\* of the 2 x 2 all-tile grid is connector-eligible with direction -90.
C16_ConnectorDirection ==
  /\ \A i1 \in 1..(rows + 1) : \A j1 \in 1..(cols + 1) :
       LET d == computeConnectorDirection(tiles, i1 - 1, j1 - 1)
       IN  /\ d = ExpectedDirection(NeighbourTiles(tiles, i1 - 1, j1 - 1))
           /\ d \in {-90, 0, 90, 180}
           /\ summits[i1][j1].connector_angle \in {null, {d}}
  /\ tiles = createEmptyGrid(2, 2).tiles =>
       /\ computeEligibleConnectorPositions(tiles)[1][2]
       /\ computeConnectorDirection(tiles, 0, 1) = -90

\* the 2 x 2 all-tile grid after enableAllConnectors: one connector per
\* edge, each with its own direction
C16_Witness ==
  /\ tiles = createEmptyGrid(2, 2).tiles
  /\ summits[1][2].connector_angle = {-90}
  /\ summits[3][2].connector_angle = {90}
  /\ summits[2][1].connector_angle = {0}
  /\ summits[2][3].connector_angle = {180}

\* C18: on an all-tile R x C grid with R,C >= 2 the screw-eligible summits are
\* exactly the interior block {1..R-1} x {1..C-1} and the corner screws are
\* exactly {1,R-1} x {1,C-1}: all 4 positions for 3 x 3 tiles, and for 4 x 4
\* tiles the 4 outer corners, without the edge midpoints and the centre.
C18_AllTileCorners ==
  (AllTiles(tiles) /\ rows >= 2 /\ cols >= 2) =>
    LET e == computeEligibleScrewPositions(tiles)
        k == computeCornerScrewPositions(e)
        marked == {p \in (0..rows) \X (0..cols) : k[p[1] + 1][p[2] + 1]}
    IN  /\ \A i \in 0..rows : \A j \in 0..cols :
             /\ e[i + 1][j + 1] <=> (i \in 1..(rows - 1) /\ j \in 1..(cols - 1))
             /\ k[i + 1][j + 1] <=> (i \in {1, rows - 1} /\ j \in {1, cols - 1})
        /\ (rows = 3 /\ cols = 3) => marked = {<<1, 1>>, <<1, 2>>, <<2, 1>>, <<2, 2>>}
        /\ (rows = 4 /\ cols = 4) => marked = {<<1, 1>>, <<1, 3>>, <<3, 1>>, <<3, 3>>}

\* the 4 x 4 all-tile grid after enableCornerScrews: screws on the 4 outer
\* corners of the interior block and nowhere else
C18_Witness ==
  /\ rows = 4 /\ cols = 4
  /\ AllTiles(tiles)
  /\ {p \in (1..5) \X (1..5) : summits[p[1]][p[2]].screw}
       = {<<2, 2>>, <<2, 4>>, <<4, 2>>, <<4, 4>>}

\* bit k of a payload: bit 7 - (k mod 8) of byte floor(k / 8)
BitOf(bytes, k) == (bytes[(k \div 8) + 1] \div Pow2(7 - (k % 8))) % 2 = 1

\* C21: encode emits seven dot-separated fields ("0", "f" or "l", decimal R,
\* decimal C, three payloads); tile (r,c) is bit r*C+c of the tile payload
\* and summit (i,j) bit i*(C+1)+j of the summit payload, most significant
\* bit first, the summit bit set iff the summit has an active feature; the
\* payloads have 3, ceil(R*C/8) and ceil((R+1)*(C+1)/8) bytes with the unused
\* trailing bits zero; decode reads the same positions.
C21_WireFormat ==
  LET c      == encode(toGridPlan)
      f      == split(c, ".")
      screwB == b64urlDecode(f[5])
      tileB  == b64urlDecode(f[6])
      sumB   == b64urlDecode(f[7])
      nT     == rows * cols
      nS     == (rows + 1) * (cols + 1)
      d      == decode(c)
  IN  /\ Len(f) = 7
      /\ f[1] = <<"0">>
      /\ f[2] = (IF opengridType = "full" THEN <<"f">> ELSE <<"l">>)
      /\ IsDecimalNumeral(f[3]) /\ parseInt(f[3]) = Num(rows)
      /\ IsDecimalNumeral(f[4]) /\ parseInt(f[4]) = Num(cols)
      /\ Len(screwB) = 3
      /\ Len(tileB) = (nT + 7) \div 8
      /\ Len(sumB) = (nS + 7) \div 8
      /\ \A r \in 0..(rows - 1) : \A k \in 0..(cols - 1) :
           BitOf(tileB, r * cols + k) = tiles[r + 1][k + 1]
      /\ \A i \in 0..rows : \A j \in 0..cols :
           BitOf(sumB, i * (cols + 1) + j) = (ActiveKinds(summits[i + 1][j + 1]) # {})
      /\ \A k \in nT..(8 * Len(tileB) - 1) : ~BitOf(tileB, k)
      /\ \A k \in nS..(8 * Len(sumB) - 1) : ~BitOf(sumB, k)
      /\ d.err = "none"
      /\ d.plan.tiles = tiles
      /\ \A i \in 0..rows : \A j \in 0..cols :
           (ActiveKinds(d.plan.summits[i + 1][j + 1]) # {}) = BitOf(sumB, i * (cols + 1) + j)

\* a lite 2 x 3 layout with a hole and a chamfer: 6 tile bits and 12 summit
\* bits, the second summit byte half used
C21_Witness ==
  /\ rows = 2 /\ cols = 3
  /\ opengridType = "lite"
  /\ ~tiles[1][2] /\ tiles[2][1]
  /\ \E i \in 1..3 : \E j \in 1..4 : summits[i][j].tile_chamfer
  /\ \E i \in 1..3 : \E j \in 1..4 : summits[i][j] = emptySummit

\* C25: after enableAllConnectors, enableAllChamfers or enableAllScrews every
\* summit eligible for that class has the feature active and no ineligible
\* summit gained it; after enableCornerScrews the screws active at
\* screw-eligible summits are exactly those computeCornerScrewPositions
\* returns; none of the four changes tiles, the shape of summits or a feature
\* of another class.
C25_EnableAll ==
  LET I == 1..Len(summits)
      J(i1) == 1..Len(summits[i1])
      SameShape(n) == /\ n.tiles = tiles
                      /\ Len(n.summits) = Len(summits)
                      /\ \A i1 \in I : Len(n.summits[i1]) = Len(summits[i1])
      Kept(n, f) == \A i1 \in I : \A j1 \in J(i1) : n.summits[i1][j1][f] = summits[i1][j1][f]
      corners == computeCornerScrewPositions(eligibility.screws)
      connectors == enableAllConnectorsOf(tiles, summits)
      chamfers == enableAllChamfersOf(tiles, summits)
      screws == enableAllScrewsOf(tiles, summits)
      cornerScrews == enableCornerScrewsOf(tiles, summits)
  IN  /\ SameShape(connectors) /\ Kept(connectors, "tile_chamfer") /\ Kept(connectors, "screw")
      /\ \A i1 \in I : \A j1 \in J(i1) :
           IF connectorAt(tiles, i1 - 1, j1 - 1)
           THEN connectors.summits[i1][j1].connector_angle # null
           ELSE summits[i1][j1].connector_angle = null
                  => connectors.summits[i1][j1].connector_angle = null
      /\ SameShape(chamfers) /\ Kept(chamfers, "connector_angle") /\ Kept(chamfers, "screw")
      /\ \A i1 \in I : \A j1 \in J(i1) :
           IF chamferAt(tiles, i1 - 1, j1 - 1)
           THEN chamfers.summits[i1][j1].tile_chamfer
           ELSE ~summits[i1][j1].tile_chamfer => ~chamfers.summits[i1][j1].tile_chamfer
      /\ SameShape(screws) /\ Kept(screws, "connector_angle") /\ Kept(screws, "tile_chamfer")
      /\ \A i1 \in I : \A j1 \in J(i1) :
           IF screwAt(tiles, i1 - 1, j1 - 1)
           THEN screws.summits[i1][j1].screw
           ELSE ~summits[i1][j1].screw => ~screws.summits[i1][j1].screw
      /\ SameShape(cornerScrews)
      /\ Kept(cornerScrews, "connector_angle") /\ Kept(cornerScrews, "tile_chamfer")
      /\ \A i1 \in I : \A j1 \in J(i1) :
           IF screwAt(tiles, i1 - 1, j1 - 1)
           THEN cornerScrews.summits[i1][j1].screw <=> At(corners, i1 - 1, j1 - 1)
           ELSE ~summits[i1][j1].screw => ~cornerScrews.summits[i1][j1].screw

\* the 4 x 4 all-tile grid with connectors and chamfers enabled, after
\* enableCornerScrews: the corner summit (1,1) holds a screw, the eligible
\* middle summit (2,2) holds none
C25_Witness ==
  /\ rows = 4 /\ cols = 4 /\ AllTiles(tiles)
  /\ summits[2][2].screw /\ ~summits[3][3].screw
  /\ summits[1][2].connector_angle # null
  /\ summits[1][1].tile_chamfer

(***************************************************************************)
(* computeCornerScrewPositions on its own (specification CornerSpec):      *)
(* every boolean grid within the bound as the eligible argument.           *)
(***************************************************************************)
MaxCornerSide == 3

BooleanGrids ==
  UNION {[1..d[1] -> [1..d[2] -> BOOLEAN]] : d \in (1..MaxCornerSide) \X (1..MaxCornerSide)}

CornerInit ==
  /\ CadClientInit
  /\ tiles = <<>>
  /\ summits = <<>>
  /\ opts \in BooleanGrids
  /\ opengridType = "full"
  /\ screwSize = DEFAULT_SCREW_SIZE
  /\ code = <<>>
  /\ result = "none"
  /\ phase = "input"

CornerStep ==
  /\ phase = "input"
  /\ result' = computeCornerScrewPositions(opts)
  /\ phase' = "corners"
  /\ UNCHANGED <<cadVars, tiles, summits, opengridType, screwSize, opts, code>>

CornerNext == CornerStep

CornerSpec == CornerInit /\ [][CornerNext]_vars

\* C17: computeCornerScrewPositions marks (i,j) iff it is eligible, its left
\* and right neighbours are not both eligible and its top and bottom
\* neighbours are not both eligible, a neighbour outside the grid counting as
\* not eligible; the result has the shape of the argument and marks only
\* eligible positions.
C17_CornerScrews ==
  phase = "corners" =>
    /\ Len(result) = Len(opts)
    /\ \A i \in 1..Len(opts) :
         /\ Len(result[i]) = Len(opts[i])
         /\ \A j \in 1..Len(opts[i]) :
              /\ result[i][j] <=>
                   /\ opts[i][j]
                   /\ ~(HoldsAt(opts, i, j - 1) /\ HoldsAt(opts, i, j + 1))
                   /\ ~(HoldsAt(opts, i - 1, j) /\ HoldsAt(opts, i + 1, j))
              /\ result[i][j] => opts[i][j]

\* a 3 x 3 grid with every position eligible: the four corners are marked,
\* the edge midpoints and the centre are passed through and are not
C17_Witness ==
  /\ phase = "corners"
  /\ Len(opts) = 3 /\ Len(opts[1]) = 3
  /\ \A i \in 1..3 : \A j \in 1..3 : opts[i][j]
  /\ \A i \in 1..3 : \A j \in 1..3 : result[i][j] <=> (i # 2 /\ j # 2)

(***************************************************************************)
(* b64urlEncode and b64urlDecode on their own (specification B64Spec):     *)
(* byte sequences of every length up to the bound.                         *)
(***************************************************************************)
MaxByteLen == 4

\* byte values whose 6-bit groups reach both ends of the alphabet,
\* "-" (62) and "_" (63) included
SampleBytes == {0, 1, 165, 248, 255}

\* every sequence of sample bytes up to the bound, and every single byte
ByteSequences ==
  (UNION {[1..n -> SampleBytes] : n \in 0..MaxByteLen}) \cup {<<b>> : b \in 0..255}

B64Init ==
  /\ CadClientInit
  /\ tiles = <<>>
  /\ summits = <<>>
  /\ opts \in ByteSequences
  /\ opengridType = "full"
  /\ screwSize = DEFAULT_SCREW_SIZE
  /\ code = <<>>
  /\ result = "none"
  /\ phase = "input"

B64Encode ==
  /\ phase = "input"
  /\ code' = b64urlEncode(opts)
  /\ phase' = "encoded"
  /\ UNCHANGED <<cadVars, tiles, summits, opengridType, screwSize, opts, result>>

\* s followed by "=" up to a multiple of 4 characters
WithPadding(s) == s \o [k \in 1..((4 - (Len(s) % 4)) % 4) |-> "="]

\* decode of the string as emitted (padded = FALSE) or with "=" appended
B64Decode(padded) ==
  /\ phase = "encoded"
  /\ result' = b64urlDecode(IF padded THEN WithPadding(code) ELSE code)
  /\ phase' = (IF padded THEN "decodedPadded" ELSE "decoded")
  /\ UNCHANGED <<cadVars, tiles, summits, opengridType, screwSize, opts, code>>

B64DecodeStep == \E padded \in BOOLEAN : B64Decode(padded)

B64Next == B64Encode \/ B64DecodeStep

B64Spec == B64Init /\ [][B64Next]_vars

\* C22: b64urlEncode(b) has only characters of A-Z a-z 0-9 - _ and no "=",
\* b64urlDecode(b64urlEncode(b)) = b, and "=" padding appended up to a
\* multiple of 4 characters does not change the decoded bytes.
C22_Base64RoundTrip ==
  /\ phase # "input" =>
       /\ \A k \in 1..Len(code) : code[k] \in {B64[x] : x \in 1..64} /\ code[k] # "="
       /\ Len(code) = (4 * Len(opts) + 2) \div 3
  /\ phase \in {"decoded", "decodedPadded"} => result = opts

\* two bytes, encoded to three characters with "-" and "_" among them, and
\* decoded back from the string with one "=" appended
C22_Witness ==
  /\ phase = "decodedPadded"
  /\ opts = <<248, 255>>
  /\ Len(code) = 3
  /\ code[1] = "-"
  /\ result = <<248, 255>>


(***************************************************************************)
(* Two handlers of one render invoked before the next render               *)
(* (specification BatchSpec).  Both closures hold the tiles of the render  *)
(* they were created in; React applies the queued updates in order, a      *)
(* value replacing the queued state and an updater function receiving it.  *)
(***************************************************************************)
MaxBatchCells == 4

BatchShapes ==
  {d \in (1..MaxBatchCells) \X (1..MaxBatchCells) : d[1] * d[2] <= MaxBatchCells}

BatchLayouts == UNION {[1..d[1] -> [1..d[2] -> BOOLEAN]] : d \in BatchShapes}

\* toggleTile of the render with tiles cap, on the queued tiles pt and summits
\* ps: setTiles receives a value built from cap, setSummits an updater
toggleTileIn(cap, pt, ps, r, c) ==
  LET newTiles == [cap EXCEPT ![r + 1][c + 1] = ~cap[r + 1][c + 1]]
      newElig  == computeAllEligibility(newTiles)
  IN  [tiles |-> newTiles, summits |-> pruneSummits(ps, newElig)]

\* addRow: two updaters, the row lengths from the cols of the render
addRowIn(cap, pt, ps) == addRowOf(pt, ps, Cols(cap))

\* removeRow: the guard and the value for setTiles from the render's tiles
removeRowIn(cap, pt, ps) ==
  IF Rows(cap) <= 1
  THEN [tiles |-> pt, summits |-> ps]
  ELSE LET newTiles == SubSeq(cap, 1, Len(cap) - 1)
           newElig  == computeAllEligibility(newTiles)
           trimmed  == SubSeq(ps, 1, Len(ps) - 1)
       IN  [tiles |-> newTiles, summits |-> pruneSummits(trimmed, newElig)]

\* addColumn: two updaters that read nothing of the render
addColumnIn(cap, pt, ps) == addColumnOf(pt, ps)

\* removeColumn: the guard and the value for setTiles from the render's tiles
removeColumnIn(cap, pt, ps) ==
  IF Cols(cap) <= 1
  THEN [tiles |-> pt, summits |-> ps]
  ELSE LET newTiles == [r \in 1..Len(cap) |-> SubSeq(cap[r], 1, Len(cap[r]) - 1)]
           newElig  == computeAllEligibility(newTiles)
           trimmed  == [i \in 1..Len(ps) |-> SubSeq(ps[i], 1, Len(ps[i]) - 1)]
       IN  [tiles |-> newTiles, summits |-> pruneSummits(trimmed, newElig)]

\* the calls a render with tiles t offers
BatchOps(t) ==
  {[op |-> "toggleTile", r |-> r, c |-> c] : r \in 0..(Rows(t) - 1), c \in 0..(Cols(t) - 1)}
    \cup {[op |-> o, r |-> 0, c |-> 0] : o \in {"addRow", "removeRow", "addColumn", "removeColumn"}}

\* call o of the render with tiles cap, applied to the queued pt and ps
Invoke(o, cap, pt, ps) ==
  IF o.op = "toggleTile" THEN toggleTileIn(cap, pt, ps, o.r, o.c)
  ELSE IF o.op = "addRow" THEN addRowIn(cap, pt, ps)
  ELSE IF o.op = "removeRow" THEN removeRowIn(cap, pt, ps)
  ELSE IF o.op = "addColumn" THEN addColumnIn(cap, pt, ps)
  ELSE removeColumnIn(cap, pt, ps)

\* o1 in one render, o2 in the render that follows it
InSuccessiveRenders(o1, o2) ==
  LET first == Invoke(o1, tiles, tiles, summits)
  IN  Invoke(o2, first.tiles, first.tiles, first.summits)

\* o1 then o2, both of the current render, before the next render
InOneRender(o1, o2) ==
  LET first == Invoke(o1, tiles, tiles, summits)
  IN  Invoke(o2, tiles, first.tiles, first.summits)

BatchInit ==
  /\ CadClientInit
  /\ tiles \in BatchLayouts
  /\ summits = createEmptyGrid(rows, cols).summits
  /\ opengridType = "full"
  /\ screwSize = DEFAULT_SCREW_SIZE
  /\ IdleCodec

\* features enabled before the two calls
BatchEnable ==
  /\ phase = "editor"
  /\ \/ enableAllConnectors
     \/ enableAllChamfers
     \/ enableAllScrews

\* two calls of one render; a toggleTile second names a tile that the render
\* after the first call still has.  opts records the calls, result what two
\* successive renders would have left.
BatchStep ==
  /\ phase = "editor"
  /\ \E o1 \in BatchOps(tiles) : \E o2 \in BatchOps(tiles) :
       LET first == Invoke(o1, tiles, tiles, summits)
       IN  /\ o2 \in BatchOps(first.tiles)
           /\ tiles' = InOneRender(o1, o2).tiles
           /\ summits' = InOneRender(o1, o2).summits
           /\ opts' = <<o1, o2>>
           /\ result' = InSuccessiveRenders(o1, o2)
  /\ phase' = "batched"
  /\ UNCHANGED <<cadVars, opengridType, screwSize, code>>

BatchNext == BatchEnable \/ BatchStep

BatchSpec == BatchInit /\ [][BatchNext]_vars

\* C26: two operations of the same render invoked one after the other before
\* the next render leave the tiles and summits that invoking them in two
\* successive renders leaves, and summits is (R+1) x (C+1) for those tiles.
C26_BatchedEqualsSequential ==
  phase = "batched" =>
    /\ tiles = result.tiles
    /\ summits = result.summits
    /\ ShapeOK(tiles, summits)


(***************************************************************************)
(* lib/cad-client.ts and lib/cad-worker.ts (specification CadSpec).  The   *)
(* client's handlers are tasks of one event loop: a task runs only when    *)
(* the microtask queue micro is empty.  The worker runs beside it; the two *)
(* exchange messages in order.  The payloads (plan, format, data) and the  *)
(* mimeType kept in pending do not influence the control flow and are left *)
(* out.                                                                    *)
(***************************************************************************)
Range(q) == {q[n] : n \in 1..Len(q)}

Settled == {"resolved", "rejected"}

\* no early return when the status has left loading
setStatusOf_NoGuard(snap, status, error) == [status |-> status, error |-> error]

\* setStatus: the snapshot it leaves
setStatusOf(snap, status, error) ==
  IF snap.status # "loading" THEN snap ELSE [status |-> status, error |-> error]

\* setStatus with its loop over listeners: every listener is a waitForReady
\* callback, which unsubscribes and resolves or rejects; the await in
\* generateCAD queues the continuation
setStatus(status, error) ==
  /\ snapshot' = setStatusOf(snapshot, status, error)
  /\ IF snapshot.status # "loading"
     THEN UNCHANGED <<listeners, micro, calls>>
     ELSE /\ listeners' = <<>>
          /\ micro' = micro \o listeners
          /\ calls' = [k \in 1..MaxCalls |->
               IF k \in Range(listeners)
               THEN [calls[k] EXCEPT !.state = IF status = "ready" THEN "resuming" ELSE "failing"]
               ELSE calls[k]]

\* resolved while the status is still loading
waitForReadyOf_NeverWaits(snap) ==
  IF snap.status = "error" THEN "rejected" ELSE "resolved"

\* waitForReady: what it returns for the snapshot it reads
waitForReadyOf(snap) ==
  IF snap.status = "ready" THEN "resolved"
  ELSE IF snap.status = "error" THEN "rejected"
  ELSE "subscribed"

\* useCadExport.trigger up to the await of generateCAD
trigger(k) ==
  /\ calls[k].state = "idle"
  /\ exportStatus' = [exportStatus EXCEPT ![k] = "loading"]
  /\ IF waitForReadyOf(snapshot) = "subscribed"
     THEN /\ listeners' = Append(listeners, k)
          /\ calls' = [calls EXCEPT ![k] = [state |-> "waiting", id |-> 0, via |-> "listener"]]
          /\ UNCHANGED micro
     ELSE /\ micro' = Append(micro, k)
          /\ calls' = [calls EXCEPT ![k] =
               [state |-> IF waitForReadyOf(snapshot) = "resolved" THEN "resuming" ELSE "failing",
                id |-> 0, via |-> "immediate"]]
          /\ UNCHANGED listeners
  /\ UNCHANGED <<gridVars, snapshot, timer, nextId, pending, toWorker, toClient,
                 workerError, worker, exporting>>

\* generateCAD after the await: the id, pending.set and postMessage, or the
\* rejection of waitForReady passed on to useCadExport
generateCAD ==
  /\ micro # <<>>
  /\ LET k == Head(micro)
     IN  IF calls[k].state = "resuming"
         THEN /\ nextId' = nextId + 1
              /\ pending' = [id \in DOMAIN pending \cup {nextId} |->
                               IF id = nextId THEN k ELSE pending[id]]
              /\ toWorker' = Append(toWorker, [type |-> "generate", id |-> nextId])
              /\ calls' = [calls EXCEPT ![k].state = "posted", ![k].id = nextId]
              /\ UNCHANGED exportStatus
         ELSE /\ calls' = [calls EXCEPT ![k].state = "rejected"]
              /\ exportStatus' = [exportStatus EXCEPT ![k] = "error"]
              /\ UNCHANGED <<nextId, pending, toWorker>>
  /\ micro' = Tail(micro)
  /\ UNCHANGED <<gridVars, snapshot, listeners, timer, toClient, workerError, worker, exporting>>

\* the setTimeout callback of the client module
timeout ==
  /\ micro = <<>>
  /\ timer
  /\ timer' = FALSE
  /\ setStatus("error", "timed out")
  /\ UNCHANGED <<gridVars, nextId, pending, exportStatus, toWorker, toClient,
                 workerError, worker, exporting>>

\* the pending entry is kept when a response settles its promise
onResponseOf_KeepsPending(pend, cs, msg) ==
  IF msg.id \in DOMAIN pend
  THEN [pending |-> pend,
        calls   |-> [cs EXCEPT ![pend[msg.id]].state =
                       IF msg.type = "result" THEN "resolved" ELSE "rejected"]]
  ELSE [pending |-> pend, calls |-> cs]

\* the "result" and "error" cases of the message listener, for pending pend
\* and calls cs
onResponseOf(pend, cs, msg) ==
  IF msg.id \in DOMAIN pend
  THEN [pending |-> [id \in DOMAIN pend \ {msg.id} |-> pend[id]],
        calls   |-> [cs EXCEPT ![pend[msg.id]].state =
                       IF msg.type = "result" THEN "resolved" ELSE "rejected"]]
  ELSE [pending |-> pend, calls |-> cs]

\* the "message" listener; a settled promise runs the callback useCadExport
\* attached to it
onMessage ==
  /\ micro = <<>>
  /\ toClient # <<>>
  /\ toClient' = Tail(toClient)
  /\ LET msg == Head(toClient)
     IN  IF msg.type = "ready"
         THEN setStatus("ready", "none") /\ UNCHANGED <<pending, exportStatus>>
         ELSE IF msg.type = "init-error"
         THEN setStatus("error", "init failed") /\ UNCHANGED <<pending, exportStatus>>
         ELSE /\ pending' = onResponseOf(pending, calls, msg).pending
              /\ calls' = onResponseOf(pending, calls, msg).calls
              /\ exportStatus' = [k \in 1..MaxCalls |->
                   IF calls'[k].state = calls[k].state THEN exportStatus[k]
                   ELSE IF calls'[k].state = "resolved" THEN "done" ELSE "error"]
              /\ UNCHANGED <<snapshot, listeners, micro>>
  /\ UNCHANGED <<gridVars, timer, nextId, toWorker, workerError, worker, exporting>>

\* the "error" listener
onError ==
  /\ micro = <<>>
  /\ workerError
  /\ workerError' = FALSE
  /\ setStatus("error", "failed to load")
  /\ UNCHANGED <<gridVars, timer, nextId, pending, exportStatus, toWorker, toClient,
                 worker, exporting>>

\* the 3 s timer useCadExport starts when its promise has settled
exportReset(k) ==
  /\ micro = <<>>
  /\ exportStatus[k] \in {"done", "error"}
  /\ exportStatus' = [exportStatus EXCEPT ![k] = "idle"]
  /\ UNCHANGED <<gridVars, snapshot, listeners, timer, nextId, pending, micro, calls,
                 toWorker, toClient, workerError, worker, exporting>>

\* initOC().then(...): ready when the WASM module is loaded, init-error when
\* loading it fails
initOC ==
  /\ worker = "init"
  /\ \E type \in {"ready", "init-error"} :
       /\ toClient' = Append(toClient, [type |-> type, id |-> 0])
       /\ worker' = IF type = "ready" THEN "up" ELSE "no engine"
  /\ UNCHANGED <<gridVars, snapshot, listeners, timer, nextId, pending, micro, calls,
                 exportStatus, toWorker, workerError, exporting>>

\* self.onmessage: drawGrid or the export throws and the catch posts an
\* error, or blob.arrayBuffer() is started
workerOnMessage ==
  /\ worker # "failed"
  /\ toWorker # <<>>
  /\ toWorker' = Tail(toWorker)
  /\ \/ /\ toClient' = Append(toClient, [type |-> "error", id |-> Head(toWorker).id])
        /\ UNCHANGED exporting
     \/ /\ exporting' = exporting \cup {Head(toWorker).id}
        /\ UNCHANGED toClient
  /\ UNCHANGED <<gridVars, snapshot, listeners, timer, nextId, pending, micro, calls,
                 exportStatus, workerError, worker>>

\* blob.arrayBuffer().then(...): the result is posted, or an error
arrayBufferSettled ==
  /\ worker # "failed"
  /\ \E id \in exporting : \E type \in {"result", "error"} :
       /\ toClient' = Append(toClient, [type |-> type, id |-> id])
       /\ exporting' = exporting \ {id}
  /\ UNCHANGED <<gridVars, snapshot, listeners, timer, nextId, pending, micro, calls,
                 exportStatus, toWorker, workerError, worker>>

\* the worker fails with an uncaught error, the event the client's "error"
\* listener is registered for: the worker runs nothing further
workerFails ==
  /\ worker # "failed"
  /\ worker' = "failed"
  /\ workerError' = TRUE
  /\ UNCHANGED <<gridVars, snapshot, listeners, timer, nextId, pending, micro, calls,
                 exportStatus, toWorker, toClient, exporting>>

TriggerStep == \E k \in 1..MaxCalls : trigger(k)

ExportResetStep == \E k \in 1..MaxCalls : exportReset(k)

CadInit ==
  /\ CadClientInit
  /\ tiles = createEmptyGrid(1, 1).tiles
  /\ summits = createEmptyGrid(1, 1).summits
  /\ opengridType = "full"
  /\ screwSize = DEFAULT_SCREW_SIZE
  /\ IdleCodec

CadNext ==
  \/ TriggerStep
  \/ generateCAD
  \/ timeout
  \/ onMessage
  \/ onError
  \/ ExportResetStep
  \/ initOC
  \/ workerOnMessage
  \/ arrayBufferSettled
  \/ workerFails

CadSpec == CadInit /\ [][CadNext]_vars


\* the handlers of the client and the steps of a running worker are taken
\* when they can be: the event loop runs every queued task and microtask and
\* the 30 s timer fires.  Nothing promises a call of trigger, the end of
\* initOC or a failure of the worker.
LiveCadSpec ==
  /\ CadSpec
  /\ WF_vars(generateCAD)
  /\ WF_vars(timeout)
  /\ WF_vars(onMessage)
  /\ WF_vars(onError)
  /\ WF_vars(workerOnMessage)
  /\ WF_vars(arrayBufferSettled)

\* C27: the status starts as loading and changes at most once, to ready or to
\* error: once it is not loading, no step (ready message, init-error
\* message, worker error event, timeout) changes the snapshot again.
C27_StatusOneShot ==
  [][/\ snapshot.status # "loading" => snapshot' = snapshot
     /\ snapshot'.status \in {"loading", "ready", "error"}
     /\ snapshot.status \in {"loading", "ready", "error"}]_vars

\* the status is error by the timeout although the worker has posted ready
\* and the client has handled the message
C27_Witness ==
  /\ snapshot = [status |-> "error", error |-> "timed out"]
  /\ worker = "up"
  /\ toClient = <<>>

\* no generate message was ever posted and no id ever taken
NothingPosted ==
  /\ toWorker = <<>>
  /\ DOMAIN pending = {}
  /\ nextId = 1
  /\ exporting = {}
  /\ \A n \in 1..Len(toClient) : toClient[n].type \in {"ready", "init-error"}
  /\ \A k \in 1..MaxCalls : calls[k].id = 0

\* C28: generateCAD posts a generate message only once the status is ready.
\* While the status is loading every call made is waiting as a listener and
\* nothing has been posted; when the status is error every call made is
\* rejected or about to be, and nothing has been posted nor added to pending.
C28_PostsOnlyWhenReady ==
  /\ snapshot.status = "loading" =>
       /\ \A k \in 1..MaxCalls : calls[k].state \in {"idle", "waiting"}
       /\ NothingPosted
  /\ snapshot.status = "error" =>
       /\ \A k \in 1..MaxCalls : calls[k].state \in {"idle", "failing", "rejected"}
       /\ NothingPosted
  /\ \A k \in 1..MaxCalls :
       /\ calls[k].state = "waiting" <=> k \in Range(listeners)
       /\ calls[k].id # 0 => snapshot.status = "ready"

\* call 1 was made while the status was loading and is posted now that the
\* status is ready
C28_Witness ==
  /\ snapshot.status = "ready"
  /\ calls[1].via = "listener"
  /\ calls[1].state = "posted"
  /\ toWorker # <<>>

\* how many messages of queue q carry id
CountId(q, id) == Cardinality({n \in 1..Len(q) : q[n].id = id})

\* C29: posted calls have distinct ids; pending holds exactly the posted
\* calls that are not settled; a result or error message with id k settles
\* the call posted with id k and no other, and removes k from pending; a
\* response whose id is not pending changes nothing; every generate message
\* is answered by exactly one response with its id.
C29_CorrelatedById ==
  /\ \A k1 \in 1..MaxCalls : \A k2 \in 1..MaxCalls :
       k1 # k2 /\ calls[k1].id # 0 => calls[k1].id # calls[k2].id
  /\ \A id \in DOMAIN pending :
       calls[pending[id]].id = id /\ calls[pending[id]].state = "posted"
  /\ \A k \in 1..MaxCalls : calls[k].state = "posted" => calls[k].id \in DOMAIN pending
  /\ \A type \in {"result", "error"} : \A id \in 0..(MaxCalls + 1) :
       LET n == onResponseOf(pending, calls, [type |-> type, id |-> id])
       IN  /\ id \notin DOMAIN n.pending
           /\ \A other \in DOMAIN pending \ {id} :
                other \in DOMAIN n.pending /\ n.pending[other] = pending[other]
           /\ DOMAIN n.pending \subseteq DOMAIN pending
           /\ \A k \in 1..MaxCalls :
                n.calls[k] =
                  IF calls[k].id = id /\ calls[k].state = "posted"
                  THEN [calls[k] EXCEPT !.state = IF type = "result" THEN "resolved" ELSE "rejected"]
                  ELSE calls[k]
  /\ \A k \in 1..MaxCalls :
       calls[k].id # 0 =>
         CountId(toWorker, calls[k].id)
           + (IF calls[k].id \in exporting THEN 1 ELSE 0)
           + CountId(toClient, calls[k].id)
           + (IF calls[k].state \in Settled THEN 1 ELSE 0) = 1
  /\ \A n \in 1..Len(toClient) :
       toClient[n].type \in {"result", "error"} =>
         \E k \in 1..MaxCalls : calls[k].id = toClient[n].id

\* the second call was posted first; the response to the later request has
\* settled its call while the earlier request is still pending
C29_Witness ==
  /\ calls[1].id = 2 /\ calls[2].id = 1
  /\ calls[1].state = "resolved"
  /\ calls[2].state = "posted"
  /\ DOMAIN pending = {1}

\* C30: every promise generateCAD returns is eventually resolved or rejected,
\* so that the export status of useCadExport does not stay at loading.
C30_EveryCallSettles ==
  \A k \in 1..MaxCalls :
    (exportStatus[k] = "loading") ~> (exportStatus[k] # "loading")

====
